---- MODULE Spec2Model ----
(***************************************************************************)
(* A model of the honeypot service (app/main.py, app/database.py,          *)
(* app/extractor.py, app/persona.py).                                      *)
(*                                                                         *)
(* Spec      the request lifecycle: honeypot_endpoint, its background      *)
(*           task, the inactivity monitors and the SQLite tables.          *)
(* SpecSeq   the same lifecycle with the messages arriving one at a time.  *)
(* SpecTerm  EntityExtractor.analyze_conversation_for_termination driven   *)
(*           turn by turn.                                                 *)
(* SpecMood  the PersonaEngine mood controller (_update_mood, reset_mood). *)
(* SpecHive  the known_scammers registry under update_hive_mind calls.     *)
(* SpecMerge merge_extraction_results applied to pairs of bundles.         *)
(* SpecRegex regex_extract applied to texts.                               *)
(* SpecExtract EntityExtractor.extract_entities applied to a message and   *)
(*           to what the chat completion call gave.                        *)
(* SpecTurn  one turn of honeypot_endpoint under the outcomes of its AI    *)
(*           calls and of the store, then its background task and the      *)
(*           inactivity monitor's send_guvi_callback.                      *)
(* SpecTimeout calculate_dynamic_timeout applied to turn numbers and       *)
(*           stored timestamps.                                            *)
(* SpecReply the canned reply of honeypot_endpoint over successive turns.  *)
(* SpecAuth  the request lifecycle with the x-api-key check.               *)
(* SpecLive  the request lifecycle under the scheduling of the event loop. *)
(* SpecBundle the accumulated entity bundle of a session over its turns.   *)
(* SpecPersona PersonaEngine.generate_response called as its signature     *)
(*           says.                                                         *)
(* SpecSummary SessionManager.summarize_old_messages (app/session.py) on   *)
(*           the messages of one session.                                  *)
(***************************************************************************)
EXTENDS Integers, Sequences, FiniteSets, TLC

VARIABLES
    \* ---- request lifecycle (app/main.py) ----
    pc,              \* position of each request / of its monitor coroutine
    req_sid,         \* request.sessionId of each request
    req_extracted,   \* the `extracted` dict of the request (passed to the background task)
    session_info,    \* the session_info dict object each request works on
    monitor_ts,      \* monitor_start_ts argument of each request's monitor
    session_data,    \* module-level dict session_data (which request's dict it holds)
    active_sessions, \* module-level dict active_sessions: monitor_start_ts per session
    clock,           \* time.time()
    callbacks,       \* webhook requests issued by send_guvi_callback, per session
    hive_mind_alert, \* the local hive_mind_alert of each request
    \* ---- SQLite tables (app/database.py) ----
    db_state,        \* table session_state
    db_messages,     \* table messages: extracted_entities of each turn, by turn_number
    known_scammers,  \* table known_scammers: sighting_count and risk_score per value
    \* ---- termination analysis (app/extractor.py) ----
    t_history,       \* len(history)
    t_entities,      \* the accumulated extracted_entities of the driven session
    t_unchanged,     \* consecutive turns that left the entity count unchanged
    t_decision,      \* result of analyze_conversation_for_termination
    \* ---- PersonaEngine (app/persona.py) ----
    current_mood,
    active_persona_key,
    handoff_triggered,
    steer_to_upi,
    mood_history,
    mood_calls,      \* number of _update_mood / reset_mood calls made
    mood_call,       \* the last call on the engine: the method, the session of the
                     \* request it served, and the locals of _update_mood
    \* ---- extraction merge (app/extractor.py) ----
    m_regex_result,  \* argument regex_result of the last merge_extraction_results call
    m_llm_result,    \* argument llm_result of that call
    m_merged,        \* the dict it returned
    \* ---- regex_extract (app/extractor.py) ----
    x_text,          \* argument text of the regex_extract call, as its list of words
    x_result,        \* the dict it returned
    \* ---- EntityExtractor.extract_entities (app/extractor.py) ----
    x_reply,         \* what the chat completion call of _llm_extract gave
    x_out,           \* the outcome of extract_entities: the dict returned or the error
    \* ---- one turn of honeypot_endpoint and what follows it (app/main.py) ----
    u_pc,            \* "idle", then "answered", "saved" or "lost", "reported"
    u_in,            \* what the turn met: message, turn number, outcomes of the calls
    u_ai,            \* is_scam, confidence, scam_analysis, extracted after the AI phase
    u_info,          \* the session_info dict of the turn
    u_resp,          \* what the caller received
    u_db,            \* rows written to the tables messages and session_state
    u_hook,          \* send_guvi_callback: requests made, their outcome, the backup file
    \* ---- calculate_dynamic_timeout (app/main.py) ----
    d_call,          \* current_turn and the stored timestamps of the call
    d_timeout,       \* the duration returned: <<n, d>> is n/d tenths of a second
    \* ---- the reply of honeypot_endpoint when generate_response raised (app/main.py) ----
    f_prev,          \* the turn before f_call
    f_call,          \* what was raised, active_persona, message_count, response_text
    \* ---- PersonaEngine.generate_response (app/persona.py) ----
    g_ret,           \* the last call: its persona_type, the persona of its prompt and
                     \* the tuple it returned
    \* ---- SessionManager (app/session.py), one session ----
    s_window,        \* self.context_window_size (0: no manager constructed yet)
    s_db,            \* the session's row of session_context (summary) and its rows of
                     \* session_messages (id, turn_number), with the last id given out
    s_call,          \* the locals of the summarize_old_messages call that awaits its
                     \* chat completion
    s_ret            \* calls of summarize_old_messages made, what the last one returned

lifeVars == <<pc, req_sid, req_extracted, session_info, monitor_ts, session_data,
              active_sessions, clock, callbacks, hive_mind_alert, db_state, db_messages,
              known_scammers>>
termVars == <<t_history, t_entities, t_unchanged, t_decision>>
moodVars == <<current_mood, active_persona_key, handoff_triggered, steer_to_upi,
              mood_history, mood_calls, mood_call>>
mergeVars == <<m_regex_result, m_llm_result, m_merged>>
regexVars == <<x_text, x_result>>
llmVars == <<x_reply, x_out>>
turnVars == <<u_pc, u_in, u_ai, u_info, u_resp, u_db, u_hook>>
dynVars == <<d_call, d_timeout>>
replyVars == <<f_prev, f_call>>
genVars == <<g_ret>>
sumVars == <<s_window, s_db, s_call, s_ret>>
tailVars == <<replyVars, genVars, sumVars>>
extVars == <<mergeVars, regexVars, llmVars, turnVars, dynVars, tailVars>>
vars == <<lifeVars, termVars, moodVars, extVars>>

(***************************************************************************)
(* Bounds of the model.                                                    *)
(***************************************************************************)
MaxReq == 2            \* inbound requests in one run
MaxTurnsDriven == 22   \* turns driven through the termination analysis
MaxMoodCalls == 4      \* calls of the mood controller in one run
MaxSightings == 4      \* sightings of one value recorded in the registry run
MaxLabelled == 2       \* values the AI-sourced bundle lists under one kind
MaxWords == 3          \* words of a text given to regex_extract

Sessions == {"s1", "s2"}
Requests == 1..MaxReq
None == "None"
EmptyDict == [x \in {} |-> 0]

(***************************************************************************)
(* Entity bundles: dicts from a key to a list of strings.                  *)
(***************************************************************************)
\* the keys of the new-session dict, main.py:800-811
AllKeys == <<"bankAccounts", "upiIds", "phishingLinks", "phoneNumbers", "emailAddresses",
             "caseIds", "policyNumbers", "orderNumbers", "amounts", "suspiciousKeywords">>
\* the keys of the accumulation loop, main.py:958-959
AccumulateKeys == <<"bankAccounts", "upiIds", "phishingLinks", "phoneNumbers",
                    "emailAddresses", "caseIds", "policyNumbers", "orderNumbers">>
\* the hive-trackable kinds, main.py:967 and 974
HiveKeys == {"bankAccounts", "upiIds", "phishingLinks", "phoneNumbers"}

Range(seq) == {seq[i] : i \in 1..Len(seq)}

\* dict.get(key, [])
Get(d, k) == IF k \in DOMAIN d THEN d[k] ELSE <<>>

\* d[key] = value on a dict
Put(d, k, v) == [x \in (DOMAIN d) \cup {k} |-> IF x = k THEN v ELSE d[x]]

EmptyEntities == [k \in Range(AllKeys) |-> <<>>]

\* the `extracted` dict of the AI-failure fallbacks, main.py:860-867
FallbackExtracted ==
    [k \in {"bankAccounts", "upiIds", "phishingLinks", "phoneNumbers", "amounts",
            "suspiciousKeywords"} |-> <<>>]

\* total number of values held by a bundle
RECURSIVE CountKeys(_, _)
CountKeys(d, keys) ==
    IF keys = <<>> THEN 0 ELSE Len(Get(d, Head(keys))) + CountKeys(d, Tail(keys))
EntityCount(d) == CountKeys(d, AllKeys)

\* dict.get(key, default)
GetOr(d, k, default) == IF k \in DOMAIN d THEN d[k] ELSE default

\* `for v in vals: if v and v not in acc: acc.append(v)`
RECURSIVE AppendUnique(_, _)
AppendUnique(acc, vals) ==
    IF vals = <<>> THEN acc
    ELSE AppendUnique(IF Head(vals) # "" /\ Head(vals) \notin Range(acc)
                      THEN Append(acc, Head(vals)) ELSE acc,
                      Tail(vals))

(***************************************************************************)
(* app/database.py                                                         *)
(***************************************************************************)
\* The row that INSERT OR REPLACE writes: the table has no column for callback_sent,
\* stale_turns or last_entity_count.
save_session_state(info) ==
    [message_count      |-> GetOr(info, "message_count", 0),
     extracted_entities |-> GetOr(info, "extracted_entities", << >>),
     scam_type          |-> GetOr(info, "scam_type", None),
     persona_type       |-> GetOr(info, "persona_type", "elderly"),
     conversation_ended |-> GetOr(info, "conversation_ended", FALSE)]

\* The dict built from a row of session_state; it has no "callback_sent" key.
load_session_state(row) ==
    [message_count      |-> row.message_count,
     extracted_entities |-> row.extracted_entities,
     scam_type          |-> row.scam_type,
     persona_type       |-> IF row.persona_type = None THEN "elderly" ELSE row.persona_type,
     conversation_ended |-> row.conversation_ended,
     stale_turns        |-> 0,
     last_entity_count  |-> 0]

\* Aggregates the extracted_entities column of the session's messages, in turn order.
RECURSIVE AggregateRows(_, _)
AggregateRows(agg, rows) ==
    IF rows = <<>> THEN agg
    ELSE AggregateRows([k \in DOMAIN agg |-> AppendUnique(agg[k], Get(Head(rows), k))],
                       Tail(rows))
get_all_session_entities(rows) == AggregateRows(EmptyEntities, rows)

\* Appends one row to messages, with turn_number = MAX(turn_number) + 1.
save_conversation(rows, entities) == Append(rows, entities)

\* update_hive_mind whose UPDATE writes the risk score of a new record.
update_hive_mind_RiskReset(table, value) ==
    IF value \in DOMAIN table
    THEN [table EXCEPT ![value] = [sighting_count |-> @.sighting_count + 1,
                                   risk_score     |-> 5]]
    ELSE Put(table, value, [sighting_count |-> 1, risk_score |-> 5])

\* update_hive_mind that evicts the record of a value it sees again.
update_hive_mind_Evict(table, value) ==
    IF value \in DOMAIN table
    THEN [x \in (DOMAIN table) \ {value} |-> table[x]]
    ELSE Put(table, value, [sighting_count |-> 1, risk_score |-> 5])

\* update_hive_mind whose UPDATE writes the count it read before another call's write.
update_hive_mind_LostIncrement(table, value) ==
    IF value \in DOMAIN table
    THEN [table EXCEPT ![value] = [sighting_count |-> @.sighting_count,
                                   risk_score     |-> @.risk_score + 1]]
    ELSE Put(table, value, [sighting_count |-> 1, risk_score |-> 5])

\* database.py:328-361 on the rows of known_scammers, keyed by value; risk_score is
\* held in tenths (0.5 is 5, + 0.1 is + 1).
update_hive_mind(table, value) ==
    IF value \in DOMAIN table
    THEN [table EXCEPT ![value] = [sighting_count |-> @.sighting_count + 1,
                                   risk_score     |-> @.risk_score + 1]]
    ELSE Put(table, value, [sighting_count |-> 1, risk_score |-> 5])

check_hive_mind(table, value) ==
    IF value \in DOMAIN table
    THEN [found |-> TRUE, sighting_count |-> table[value].sighting_count]
    ELSE [found |-> FALSE, sighting_count |-> 0]

(***************************************************************************)
(* app/main.py: honeypot_endpoint                                          *)
(***************************************************************************)
\* persona_map.get(scam_type, "elderly"), main.py:891-904
persona_map(scam_type) ==
    CASE scam_type = "SEXTORTION" -> "naive_girl"
      [] scam_type \in {"JOB_SCAM", "INVESTMENT", "LOAN_SCAM"} -> "student"
      [] scam_type \in {"FAMILY_EMERGENCY", "REFUND_SCAM"} -> "homemaker"
      [] OTHER -> "elderly"

\* the dict of a new session, main.py:797-826
NewSessionInfo ==
    [message_count      |-> 1,
     extracted_entities |-> EmptyEntities,
     scam_type          |-> None,
     persona_type       |-> "elderly",
     conversation_ended |-> FALSE,
     callback_sent      |-> FALSE,
     stale_turns        |-> 0,
     last_entity_count  |-> 0]

\* RestoredSessionInfo without the increment of main.py:759
RestoredSessionInfo_NoIncrement(row, rows) ==
    LET loaded == load_session_state(row)
        all_entities == get_all_session_entities(rows)
    IN [loaded EXCEPT
          !.extracted_entities =
              [k \in (DOMAIN @) \cup {a \in Range(AllKeys) : all_entities[a] # <<>>} |->
                  IF Get(all_entities, k) # <<>> THEN all_entities[k] ELSE @[k]]]

\* main.py:756-780: the loaded dict, its turn counter incremented, each entity list
\* replaced by the aggregate of the stored messages where that aggregate is not empty.
RestoredSessionInfo(row, rows) ==
    LET loaded == load_session_state(row)
        all_entities == get_all_session_entities(rows)
    IN [loaded EXCEPT
          !.message_count = @ + 1,
          !.extracted_entities =
              [k \in (DOMAIN @) \cup {a \in Range(AllKeys) : all_entities[a] # <<>>} |->
                  IF Get(all_entities, k) # <<>> THEN all_entities[k] ELSE @[k]]]

\* main.py:884-905 and 913-917: scam type and persona of the session, suspicious keywords.
WithAnalysis(info, is_scam, scam_type, tactics) ==
    LET typed == IF info.scam_type = None /\ is_scam
                 THEN [info EXCEPT !.scam_type = scam_type,
                                   !.persona_type = persona_map(scam_type)]
                 ELSE info
    IN [typed EXCEPT !.extracted_entities.suspiciousKeywords =
            LET add[i \in 0..Len(tactics)] ==
                    IF i = 0 THEN @
                    ELSE IF tactics[i] \in Range(add[i - 1]) THEN add[i - 1]
                         ELSE Append(add[i - 1], tactics[i])
            IN add[Len(tactics)]]

\* the (key, value) pairs the accumulation loop visits, in its order
RECURSIVE Pairs(_, _)
Pairs(extracted, keys) ==
    IF keys = <<>> THEN <<>>
    ELSE [i \in 1..Len(Get(extracted, Head(keys))) |->
             <<Head(keys), Get(extracted, Head(keys))[i]>>]
         \o Pairs(extracted, Tail(keys))

\* One iteration of the loop of main.py:958-982 on st = [entities, hive, alert].
AccumulateOne(st, key, value) ==
    IF value = "" THEN st
    ELSE IF key = "caseIds" /\ Len(value) < 6 THEN st
    ELSE LET hive == IF key \in HiveKeys THEN update_hive_mind(st.hive, value) ELSE st.hive
             held == Get(st.entities, key)
             match == check_hive_mind(hive, value)
         IN IF value \in Range(held)
            THEN [st EXCEPT !.hive = hive]
            ELSE [entities |-> Put(st.entities, key, Append(held, value)),
                  hive     |-> hive,
                  alert    |-> IF key \in HiveKeys /\ match.found /\ match.sighting_count > 1
                               THEN <<value, key, match.sighting_count>>
                               ELSE st.alert]

RECURSIVE Accumulate(_, _)
Accumulate(st, pairs) ==
    IF pairs = <<>> THEN st
    ELSE Accumulate(AccumulateOne(st, Head(pairs)[1], Head(pairs)[2]), Tail(pairs))

\* What the detector and the extractor hand to the turn (main.py:835-953): the analysis
\* and the `extracted` dict as it stands after the history merge, the meta-wrapper
\* injection and the phone normalisation. The last outcome is the fallback of the two
\* except branches (AI timeout or error).
DetectOutcomes ==
    {[is_scam |-> TRUE, scam_type |-> "JOB_SCAM", tactics |-> <<"urgency">>,
      extracted |-> [EmptyEntities EXCEPT !.bankAccounts = <<"50100123456789">>]],
     [is_scam |-> TRUE, scam_type |-> "BANK_FRAUD", tactics |-> <<>>,
      extracted |-> [EmptyEntities EXCEPT !.bankAccounts = <<"50100123456789">>,
                                          !.upiIds = <<"scam@fakebank">>]],
     [is_scam |-> FALSE, scam_type |-> "UNKNOWN", tactics |-> <<>>,
      extracted |-> EmptyEntities],
     [is_scam |-> TRUE, scam_type |-> "UNKNOWN", tactics |-> <<>>,
      extracted |-> FallbackExtracted]}

\* requests.post inside send_guvi_callback blocks the event loop: no other coroutine
\* runs while a webhook request is in flight.
LoopFree == \A r \in Requests : pc[r] # "sending"

\* main.py:733-831: the key is valid, the session is loaded or created; the handler
\* then awaits the detector and the extractor. Requests are numbered in arrival order
\* and sessions are named in the order of their first message.
Accept(r, s) ==
    /\ LoopFree
    /\ pc[r] = "idle"
    /\ IF r = 1 THEN TRUE ELSE pc[r - 1] # "idle"
    /\ s = "s2" => \E q \in DOMAIN req_sid : req_sid[q] = "s1"
    /\ pc' = [pc EXCEPT ![r] = "ai"]
    /\ req_sid' = Put(req_sid, r, s)
    /\ IF s \in DOMAIN db_state
       THEN /\ session_info' = Put(session_info, r,
                                   RestoredSessionInfo(db_state[s], db_messages[s]))
            /\ UNCHANGED session_data
       ELSE /\ session_info' = Put(session_info, r, NewSessionInfo)
            /\ session_data' = Put(session_data, s, r)
    /\ UNCHANGED <<req_extracted, monitor_ts, active_sessions, clock, callbacks,
                   hive_mind_alert, db_state, db_messages, known_scammers>>
    /\ UNCHANGED <<termVars, moodVars, extVars>>

\* main.py:835-982: the analysis arrives (or its fallback), the session's scam type,
\* persona and keywords are set, the turn's entities are accumulated and the hive mind
\* is updated; the handler then awaits persona.generate_response.
Process(r, out) ==
    /\ LoopFree
    /\ pc[r] = "ai"
    /\ LET info == WithAnalysis(session_info[r], out.is_scam, out.scam_type, out.tactics)
           st == Accumulate([entities |-> info.extracted_entities,
                             hive     |-> known_scammers,
                             alert    |-> <<>>],
                            Pairs(out.extracted, AccumulateKeys))
       IN /\ session_info' = [session_info EXCEPT
                                 ![r] = [info EXCEPT !.extracted_entities = st.entities]]
          /\ known_scammers' = st.hive
          /\ hive_mind_alert' = Put(hive_mind_alert, r, st.alert)
    /\ req_extracted' = Put(req_extracted, r, out.extracted)
    /\ pc' = [pc EXCEPT ![r] = "persona"]
    /\ UNCHANGED <<req_sid, monitor_ts, session_data, active_sessions, clock, callbacks,
                   db_state, db_messages>>
    /\ UNCHANGED <<termVars, moodVars, extVars>>

\* main.py:984-1097: the reply (generated or canned) is there, the background task is
\* queued and the response is returned with status "success".
Respond(r) ==
    /\ LoopFree
    /\ pc[r] = "persona"
    /\ pc' = [pc EXCEPT ![r] = "queued"]
    /\ UNCHANGED <<req_sid, req_extracted, session_info, monitor_ts, session_data,
                   active_sessions, clock, callbacks, hive_mind_alert, db_state,
                   db_messages, known_scammers>>
    /\ UNCHANGED <<termVars, moodVars, extVars>>

(***************************************************************************)
(* app/main.py: process_background_tasks, monitor_inactivity_and_callback  *)
(***************************************************************************)
\* main.py:573-608: the turn and the session state are saved, the monitor timestamp of
\* the session is replaced and a new monitor is started. Consecutive readings of
\* time.time() by this task differ: two SQLite commits lie between them.
process_background_tasks(r) ==
    /\ LoopFree
    /\ pc[r] = "queued"
    /\ db_messages' = [db_messages EXCEPT
                          ![req_sid[r]] = save_conversation(@, req_extracted[r])]
    /\ db_state' = Put(db_state, req_sid[r], save_session_state(session_info[r]))
    /\ monitor_ts' = Put(monitor_ts, r, clock)
    /\ active_sessions' = Put(active_sessions, req_sid[r], clock)
    /\ clock' = clock + 1
    /\ pc' = [pc EXCEPT ![r] = "monitor"]
    /\ UNCHANGED <<req_sid, req_extracted, session_info, session_data, callbacks,
                   hive_mind_alert, known_scammers>>
    /\ UNCHANGED <<termVars, moodVars, extVars>>

\* MonitorSuperseded with `>=` in place of `>` at line 404: the session's latest
\* monitor takes its own timestamp for a newer one.
MonitorSuperseded_OrEqual(r) ==
    \/ req_sid[r] \notin DOMAIN active_sessions
    \/ active_sessions[req_sid[r]] >= monitor_ts[r]

\* MonitorSuperseded with the comparison of line 404 reversed.
MonitorSuperseded_Reversed(r) ==
    \/ req_sid[r] \notin DOMAIN active_sessions
    \/ active_sessions[req_sid[r]] < monitor_ts[r]

\* main.py:399-408: the monitor is not (or no longer) the session's active one.
MonitorSuperseded(r) ==
    \/ req_sid[r] \notin DOMAIN active_sessions
    \/ active_sessions[req_sid[r]] > monitor_ts[r]

\* main.py:411: the dict this monitor holds says the callback was sent.
MonitorCallbackSent(r) == GetOr(session_info[r], "callback_sent", FALSE)

\* main.py:395-465: the sleep is over. The monitor returns when it is superseded or
\* its dict says the callback was sent; otherwise (the time since monitor_start_ts is
\* at least the sleep, so the test of line 420 passes) it issues the webhook request.
MonitorWake(r) ==
    /\ LoopFree
    /\ pc[r] = "monitor"
    /\ IF MonitorSuperseded(r) \/ MonitorCallbackSent(r)
       THEN /\ pc' = [pc EXCEPT ![r] = "done"]
            /\ UNCHANGED callbacks
       ELSE /\ pc' = [pc EXCEPT ![r] = "sending"]
            /\ callbacks' = [callbacks EXCEPT ![req_sid[r]] = @ + 1]
    /\ UNCHANGED <<req_sid, req_extracted, session_info, monitor_ts, session_data,
                   active_sessions, clock, hive_mind_alert, db_state, db_messages,
                   known_scammers>>
    /\ UNCHANGED <<termVars, moodVars, extVars>>

\* main.py:467-469: after send_guvi_callback returned, the flag is set on the monitor's
\* dict and the dict is saved.
MonitorMark(r) ==
    /\ pc[r] = "sending"
    /\ session_info' = [session_info EXCEPT ![r] = Put(@, "callback_sent", TRUE)]
    /\ db_state' = Put(db_state, req_sid[r], save_session_state(session_info'[r]))
    /\ pc' = [pc EXCEPT ![r] = "done"]
    /\ UNCHANGED <<req_sid, req_extracted, monitor_ts, session_data, active_sessions,
                   clock, callbacks, hive_mind_alert, db_messages, known_scammers>>
    /\ UNCHANGED <<termVars, moodVars, extVars>>

InitLife ==
    /\ pc = [r \in Requests |-> "idle"]
    /\ req_sid = EmptyDict
    /\ req_extracted = EmptyDict
    /\ session_info = EmptyDict
    /\ monitor_ts = EmptyDict
    /\ session_data = EmptyDict
    /\ active_sessions = EmptyDict
    /\ clock = 1
    /\ callbacks = [s \in Sessions |-> 0]
    /\ hive_mind_alert = EmptyDict
    /\ db_state = EmptyDict
    /\ db_messages = [s \in Sessions |-> <<>>]
    /\ known_scammers = EmptyDict

InitTerm ==
    /\ t_history = 0
    /\ t_entities = EmptyEntities
    /\ t_unchanged = 0
    /\ t_decision = <<FALSE, "CONTINUE", 0>>

InitMood ==
    /\ current_mood = "NEUTRAL"
    /\ active_persona_key = "elderly"
    /\ handoff_triggered = FALSE
    /\ steer_to_upi = FALSE
    /\ mood_history = <<>>
    /\ mood_calls = 0
    /\ mood_call = [method |-> "__init__", session |-> None, triggers |-> <<>>,
                    has_financial |-> FALSE, should_switch |-> FALSE]

InitExt ==
    /\ m_regex_result = EmptyDict
    /\ m_llm_result = EmptyDict
    /\ m_merged = EmptyEntities
    /\ x_text = <<>>
    /\ x_result = EmptyDict
    /\ x_reply = EmptyDict
    /\ x_out = EmptyDict
    /\ u_pc = "idle"
    /\ u_in = EmptyDict
    /\ u_ai = EmptyDict
    /\ u_info = EmptyDict
    /\ u_resp = EmptyDict
    /\ u_db = [messages |-> <<>>, session_state |-> EmptyDict]
    /\ u_hook = [requests |-> 0, outcome |-> None, backup |-> EmptyDict]
    /\ d_call = EmptyDict
    /\ d_timeout = <<0, 1>>
    /\ f_prev = EmptyDict
    /\ f_call = EmptyDict
    /\ g_ret = EmptyDict
    /\ s_window = 0
    /\ s_db = EmptyDict
    /\ s_call = EmptyDict
    /\ s_ret = [calls |-> 0, completion |-> None, value |-> ""]

Init == InitLife /\ InitTerm /\ InitMood /\ InitExt

Next ==
    \/ \E r \in Requests, s \in Sessions : Accept(r, s)
    \/ \E r \in Requests, out \in DetectOutcomes : Process(r, out)
    \/ \E r \in Requests : Respond(r)
    \/ \E r \in Requests : process_background_tasks(r)
    \/ \E r \in Requests : MonitorWake(r)
    \/ \E r \in Requests : MonitorMark(r)

Spec == Init /\ [][Next]_vars

\* The same service when the messages arrive one at a time: a message is accepted only
\* after the background task of every earlier message has run (monitors may still be
\* pending).
AcceptInTurn(r, s) ==
    /\ \A q \in Requests : q < r => pc[q] \in {"monitor", "sending", "done"}
    /\ Accept(r, s)

NextSeq ==
    \/ \E r \in Requests, s \in Sessions : AcceptInTurn(r, s)
    \/ \E r \in Requests, out \in DetectOutcomes : Process(r, out)
    \/ \E r \in Requests : Respond(r)
    \/ \E r \in Requests : process_background_tasks(r)
    \/ \E r \in Requests : MonitorWake(r)
    \/ \E r \in Requests : MonitorMark(r)

SpecSeq == Init /\ [][NextSeq]_vars

(***************************************************************************)
(* Properties of the request lifecycle (Spec).                             *)
(***************************************************************************)
\* the requests accepted so far for session s
AcceptedFor(s) == {r \in DOMAIN req_sid : req_sid[r] = s}

\* the monitor of request r has been started (registered in active_sessions)
TimerStarted(r) == r \in DOMAIN monitor_ts

\* a monitor of the same session was started after the monitor of r
LaterTimerStarted(r) ==
    \E q \in DOMAIN monitor_ts :
        q # r /\ req_sid[q] = req_sid[r] /\ monitor_ts[q] > monitor_ts[r]

\* some dict of session s carries callback_sent = True
CallbackSentFor(s) ==
    \E r \in AcceptedFor(s) : GetOr(session_info[r], "callback_sent", FALSE)

\* C1: for every session, send_guvi_callback is attempted at most once, over every
\* interleaving of inbound messages and monitor firings.
C1_AtMostOneCallback == \A s \in Sessions : callbacks[s] <= 1

\* C2: a monitor that wakes after a later monitor of its session was started does
\* nothing: it ends without a webhook request and leaves every session dict, the
\* stored session state, the stored messages and active_sessions as they were.
C2_SupersededTimerNoOp ==
    [][\A r \in Requests :
          (pc[r] = "monitor" /\ pc'[r] # "monitor" /\ LaterTimerStarted(r))
             => /\ pc'[r] = "done"
                /\ callbacks' = callbacks
                /\ session_info' = session_info
                /\ db_state' = db_state
                /\ db_messages' = db_messages
                /\ active_sessions' = active_sessions]_vars

\* C2 witness: a superseded monitor has woken and ended without sending.
C2_Witness ==
    \E r \in Requests :
        /\ pc[r] = "done"
        /\ LaterTimerStarted(r)
        /\ ~GetOr(session_info[r], "callback_sent", FALSE)
        /\ callbacks[req_sid[r]] = 0

\* C3: while the webhook request of a session is being issued, callback_sent is
\* already true on the session dict and in the stored session state.
C3_FlagSavedBeforeWebhook ==
    \A r \in Requests :
        pc[r] = "sending"
           => /\ GetOr(session_info[r], "callback_sent", FALSE)
              /\ req_sid[r] \in DOMAIN db_state
              /\ GetOr(load_session_state(db_state[req_sid[r]]), "callback_sent", FALSE)

\* C4: no monitor started by a message dispatches a report once a later message of
\* the same session has been accepted, whether or not the later message's own
\* monitor has been registered yet.
C4_NoDispatchAfterNewMessage ==
    \A r \in Requests, q \in Requests :
        ~(pc[r] = "sending" /\ q > r /\ q \in AcceptedFor(req_sid[r]))

\* C5: when the N accepted messages of a session have all been fully processed
\* (their background tasks have run), the stored turn count of the session is N.
C5_TurnCountExact ==
    \A s \in Sessions :
        (AcceptedFor(s) # {} /\ \A r \in AcceptedFor(s) : pc[r] \in {"monitor", "sending", "done"})
           => db_state[s].message_count = Cardinality(AcceptedFor(s))

\* the value a reader of the dict sees for a SessionState field
ReadField(info, f) ==
    IF f = "callback_sent" THEN GetOr(info, f, FALSE) ELSE info[f]

SessionStateFields ==
    {"message_count", "extracted_entities", "persona_type", "conversation_ended",
     "callback_sent", "stale_turns", "last_entity_count"}

\* C6: whenever a session dict is saved, loading the stored row gives back the value
\* of every SessionState field of the saved dict.
C6_SaveLoadRoundTrip ==
    [][\A r \in Requests :
          ((pc[r] = "queued" /\ pc'[r] = "monitor") \/ (pc[r] = "sending" /\ pc'[r] = "done"))
             => \A f \in SessionStateFields :
                   ReadField(load_session_state(db_state'[req_sid[r]]), f)
                      = ReadField(session_info'[r], f)]_vars

\* C7: once callback_sent is true for a session, no step of the handling of an
\* inbound message of that session changes the stored state of the session.
C7_NoMutationAfterCallback ==
    [][\A r \in Requests :
          (/\ pc[r] \in {"idle", "ai", "persona", "queued"}
           /\ pc'[r] # pc[r]
           /\ CallbackSentFor(req_sid'[r]))
             => /\ db_state' = db_state
                /\ db_messages' = db_messages]_vars

(***************************************************************************)
(* app/extractor.py: EntityExtractor.analyze_conversation_for_termination  *)
(***************************************************************************)
MAX_TURNS == 20             \* extractor.py:532
INTEL_MIN_TURNS == 5        \* extractor.py:530
INTEL_COMPLETE_PERCENT == 75 \* extractor.py:530 (0.75)

\* the four kinds that count for the intel score, extractor.py:522-525
IntelKinds == {"bankAccounts", "upiIds", "phoneNumbers", "phishingLinks"}

\* intel_score in percent: sum([has_bank, has_upi, has_phone, has_links]) / 4.0
intel_score(extracted_entities) ==
    25 * Cardinality({k \in IntelKinds : Len(Get(extracted_entities, k)) > 0})

\* (should_end, reason, intel_completeness) for a history of history_len turns
analyze_conversation_for_termination(history_len, extracted_entities) ==
    IF history_len = 0 THEN <<FALSE, "CONTINUE", 0>>
    ELSE IF intel_score(extracted_entities) >= INTEL_COMPLETE_PERCENT
            /\ history_len >= INTEL_MIN_TURNS
         THEN <<TRUE, "INTEL_COMPLETE", intel_score(extracted_entities)>>
    ELSE IF history_len >= MAX_TURNS
         THEN <<TRUE, "MAX_TURNS", intel_score(extracted_entities)>>
    ELSE <<FALSE, "CONTINUE", intel_score(extracted_entities)>>

\* the kinds a driven turn may bring a first value of
TermKinds == IntelKinds \cup {"emailAddresses"}

\* One turn of a session: the history grows by one message (save_conversation), the
\* turn's new entity, if any, joins the accumulated bundle (main.py:973-982) and the
\* termination analysis is evaluated on the two. t_unchanged counts the consecutive
\* turns that left the accumulated entity count as it was.
TermTurn(kind) ==
    /\ t_history < MaxTurnsDriven
    /\ t_history' = t_history + 1
    /\ t_entities' = IF kind = None \/ Get(t_entities, kind) # <<>>
                     THEN t_entities
                     ELSE [t_entities EXCEPT ![kind] = <<"value">>]
    /\ t_unchanged' = IF EntityCount(t_entities') > EntityCount(t_entities)
                      THEN 0 ELSE t_unchanged + 1
    /\ t_decision' = analyze_conversation_for_termination(t_history', t_entities')
    /\ UNCHANGED <<lifeVars, moodVars, extVars>>

NextTerm == \E kind \in TermKinds \cup {None} : TermTurn(kind)

SpecTerm == Init /\ [][NextTerm]_vars

\* C8: whenever the turn count has reached the maximum, the decision is to end with
\* reason MAX_TURNS, whatever entities have been extracted.
C8_MaxTurnsWins ==
    t_history >= MAX_TURNS => (t_decision[1] = TRUE /\ t_decision[2] = "MAX_TURNS")

\* C9: when the accumulated entity count has been unchanged for 5 consecutive turns
\* and the turn cap is not reached, the decision is to end with reason
\* STALE_INTERACTION (t_unchanged is the stale counter the claim describes: it is 0
\* after a turn that increased the count and one more after any other turn).
C9_StaleInteractionEnds ==
    (t_unchanged >= 5 /\ t_history < MAX_TURNS)
       => (t_decision[1] = TRUE /\ t_decision[2] = "STALE_INTERACTION")

(***************************************************************************)
(* app/database.py: the hive-mind registry                                 *)
(***************************************************************************)
\* the values recorded: a bank account, a UPI id, a phone number
HiveValues == {"50100123456789", "scam@fakebank", "+919876543210"}

\* one call of update_hive_mind(value, kind)
HiveUpdate(v) ==
    /\ v \in DOMAIN known_scammers => known_scammers[v].sighting_count < MaxSightings
    /\ known_scammers' = update_hive_mind(known_scammers, v)
    /\ UNCHANGED <<pc, req_sid, req_extracted, session_info, monitor_ts, session_data,
                   active_sessions, clock, callbacks, hive_mind_alert, db_state,
                   db_messages>>
    /\ UNCHANGED <<termVars, moodVars, extVars>>

NextHive == \E v \in HiveValues : HiveUpdate(v)

SpecHive == Init /\ [][NextHive]_vars

\* C16: a call of update_hive_mind for an unseen value inserts its record with
\* sighting count 1 and risk score 0.5; for a seen value it adds exactly 1 to the
\* sighting count and exactly 0.1 to the risk score; the records of all other values
\* are unchanged.
C16_HiveUpdateEffect ==
    [][\E v \in HiveValues :
          /\ DOMAIN known_scammers' = (DOMAIN known_scammers) \cup {v}
          /\ IF v \in DOMAIN known_scammers
             THEN /\ known_scammers'[v].sighting_count = known_scammers[v].sighting_count + 1
                  /\ known_scammers'[v].risk_score = known_scammers[v].risk_score + 1
             ELSE /\ known_scammers'[v].sighting_count = 1
                  /\ known_scammers'[v].risk_score = 5
          /\ \A w \in (DOMAIN known_scammers) \ {v} : known_scammers'[w] = known_scammers[w]
      ]_vars

\* C16 witness: one value was recorded three times (0.5 + 0.1 + 0.1) next to a value
\* recorded once.
C16_Witness ==
    \E v, w \in DOMAIN known_scammers :
        /\ known_scammers[v] = [sighting_count |-> 3, risk_score |-> 7]
        /\ known_scammers[w] = [sighting_count |-> 1, risk_score |-> 5]

\* C17: over message turns no record of the registry is deleted, and the sighting
\* count of every value is at least 1 and never decreases.
C17_HiveNeverShrinks ==
    [][/\ \A v \in DOMAIN known_scammers :
             /\ v \in DOMAIN known_scammers'
             /\ known_scammers'[v].sighting_count >= known_scammers[v].sighting_count
       /\ \A v \in DOMAIN known_scammers' : known_scammers'[v].sighting_count >= 1]_vars

\* C17 witness: a value recorded by one turn was recorded again by a later turn.
C17_Witness ==
    /\ "50100123456789" \in DOMAIN known_scammers
    /\ known_scammers["50100123456789"].sighting_count = 2
    /\ \A r \in Requests : pc[r] = "done"

\* the requests whose handler has run the accumulation loop
Accumulated(r) == r \in DOMAIN req_extracted

\* how often the accumulation loop of request r called update_hive_mind for value v
HiveCallsOf(r, v) ==
    Cardinality({p \in DOMAIN Pairs(req_extracted[r], AccumulateKeys) :
                    /\ Pairs(req_extracted[r], AccumulateKeys)[p][1] \in HiveKeys
                    /\ Pairs(req_extracted[r], AccumulateKeys)[p][2] = v})

\* the update_hive_mind calls made for value v by the requests 1..n
RECURSIVE HiveCalls(_, _)
HiveCalls(n, v) ==
    IF n = 0 THEN 0
    ELSE HiveCalls(n - 1, v) + (IF Accumulated(n) THEN HiveCallsOf(n, v) ELSE 0)

\* C18: however the handlers of concurrent requests interleave, the sighting count of
\* a value is the number of update_hive_mind calls made for it (the registry starts
\* empty): no increment is lost and an unseen value is inserted once.
C18_NoLostIncrement ==
    \A v \in HiveValues :
        IF HiveCalls(MaxReq, v) = 0
        THEN v \notin DOMAIN known_scammers
        ELSE /\ v \in DOMAIN known_scammers
             /\ known_scammers[v].sighting_count = HiveCalls(MaxReq, v)

\* C18 witness: two requests are in flight together (both wait for their reply) and
\* both have recorded the same value.
C18_Witness ==
    /\ pc[1] = "persona" /\ pc[2] = "persona"
    /\ HiveCallsOf(1, "50100123456789") = 1 /\ HiveCallsOf(2, "50100123456789") = 1
    /\ known_scammers["50100123456789"].sighting_count = 2

\* value v of kind key appeared in an earlier turn of the session of request r
SeenInSession(r, key, v) ==
    \E q \in Requests \ {r} :
        /\ Accumulated(q)
        /\ req_sid[q] = req_sid[r]
        /\ v \in Range(Get(req_extracted[q], key))

\* the (kind, value) pairs of the turn's entities that qualify for a repeat-sighting
\* alert: hive-tracked, new to the session of request r, sighting count above 1
Qualifying(r, extracted, table) ==
    {p \in Range(Pairs(extracted, AccumulateKeys)) :
        /\ p[1] \in HiveKeys
        /\ ~SeenInSession(r, p[1], p[2])
        /\ check_hive_mind(table, p[2]).sighting_count > 1}

\* C19: in the turn of request r an alert is raised exactly when some value of the
\* turn is new to the session and the registry shows a sighting count above 1 for it;
\* the one alert of the turn names such a value, and a value that appeared in an
\* earlier turn of the session raises none.
C19_AlertOnFirstSightingInSession ==
    [][\A r \in Requests :
          (pc[r] = "ai" /\ pc'[r] = "persona")
          => LET Q == Qualifying(r, req_extracted'[r], known_scammers')
             IN IF Q = {}
                THEN hive_mind_alert'[r] = <<>>
                ELSE \E p \in Q :
                        hive_mind_alert'[r] =
                            <<p[2], p[1], known_scammers'[p[2]].sighting_count>>]_vars

(***************************************************************************)
(* app/persona.py: PersonaEngine._update_mood and reset_mood               *)
(***************************************************************************)
\* `w in s` on strings
Contains(w, s) ==
    \E i \in 1..(Len(s) - Len(w) + 1) : SubSeq(s, i, i + Len(w) - 1) = w

\* any(w in s for w in ws)
AnyIn(ws, s) == \E w \in ws : Contains(w, s)

LowerChar(c) ==
    CASE c = "A" -> "a" [] c = "B" -> "b" [] c = "C" -> "c" [] c = "D" -> "d"
      [] c = "E" -> "e" [] c = "F" -> "f" [] c = "G" -> "g" [] c = "H" -> "h"
      [] c = "I" -> "i" [] c = "J" -> "j" [] c = "K" -> "k" [] c = "L" -> "l"
      [] c = "M" -> "m" [] c = "N" -> "n" [] c = "O" -> "o" [] c = "P" -> "p"
      [] c = "Q" -> "q" [] c = "R" -> "r" [] c = "S" -> "s" [] c = "T" -> "t"
      [] c = "U" -> "u" [] c = "V" -> "v" [] c = "W" -> "w" [] c = "X" -> "x"
      [] c = "Y" -> "y" [] c = "Z" -> "z" [] OTHER -> c

RECURSIVE LowerOf(_)
LowerOf(str) ==
    IF Len(str) = 0 THEN ""
    ELSE LowerChar(SubSeq(str, 1, 1)) \o LowerOf(SubSeq(str, 2, Len(str)))

\* the lower-case forms of the words of the model, computed once
lower_table ==
    [str \in {"pay@okaxis", "PAY@OKAXIS", "help@sbi.co", "9876543210", "50100123456789",
              "urgent", "Scammer", "(current):"}
        |-> LowerOf(str)]

\* str.lower()
Lower(str) == IF str \in DOMAIN lower_table THEN lower_table[str] ELSE LowerOf(str)

\* self.mood_transitions, persona.py:114-181
mood_transitions ==
    [NEUTRAL |-> [threat |-> "WORRIED", reward |-> "EXCITED", request_info |-> "CONFUSED",
                  pressure |-> "ANXIOUS", reassurance |-> "NEUTRAL"],
     WORRIED |-> [pressure |-> "ANXIOUS", more_pressure |-> "COOPERATIVE",
                  reassurance |-> "HOPEFUL", technical |-> "CONFUSED"],
     EXCITED |-> [payment_request |-> "CONFUSED", verification |-> "COOPERATIVE",
                  delay |-> "IMPATIENT"],
     CONFUSED |-> [pressure |-> "ANXIOUS", help |-> "COOPERATIVE", reassurance |-> "HOPEFUL"],
     ANXIOUS |-> [pressure |-> "COOPERATIVE", reassurance |-> "HOPEFUL",
                  technical |-> "OVERWHELMED"],
     HOPEFUL |-> [payment_request |-> "COOPERATIVE", delay |-> "IMPATIENT"],
     COOPERATIVE |-> [success |-> "RELIEVED", failure |-> "WORRIED", more_requests |-> "TIRED"],
     IMPATIENT |-> [delay |-> "FRUSTRATED", resolution |-> "RELIEVED"],
     OVERWHELMED |-> [help |-> "COOPERATIVE", pressure |-> "FRUSTRATED"],
     FRUSTRATED |-> [resolution |-> "RELIEVED", more_pressure |-> "GIVING_UP"],
     TIRED |-> [pressure |-> "GIVING_UP", help |-> "HOPEFUL"],
     FAKE_ERROR |-> [pressure |-> "ANXIOUS", new_account |-> "COOPERATIVE",
                     reassurance |-> "WORRIED"],
     AGGRESSIVE |-> [threat |-> "AGGRESSIVE", apology |-> "SKEPTICAL", hangup |-> "VICTORIOUS"],
     SKEPTICAL |-> [explanation |-> "AGGRESSIVE", proof |-> "SKEPTICAL"],
     BLACK_OPS_GREED |-> [agreement |-> "BLACK_OPS_CULT", suspicion |-> "BLACK_OPS_GREED"],
     BLACK_OPS_FEAR |-> [help |-> "COOPERATIVE", panic |-> "BLACK_OPS_FEAR"],
     BLACK_OPS_REVERSE |-> [payment |-> "VICTORIOUS", refusal |-> "BLACK_OPS_GREED"],
     BLACK_OPS_JEALOUSY |-> [denial |-> "BLACK_OPS_REVERSE", proof |-> "SKEPTICAL"],
     BLACK_OPS_BANK_FISH |-> [new_account |-> "FAKE_ERROR",
                              same_account |-> "BLACK_OPS_REVERSE"]]

\* persona.py:403-407: the transitions added to the current state's dict on every call
dynamic_transitions ==
    [trigger_greed |-> "BLACK_OPS_GREED", trigger_fear |-> "BLACK_OPS_FEAR",
     trigger_reverse |-> "BLACK_OPS_REVERSE", trigger_jealousy |-> "BLACK_OPS_JEALOUSY",
     trigger_bank_fish |-> "BLACK_OPS_BANK_FISH"]

\* persona.py:400-407: the dict the trigger loop looks the triggers up in
current_transitions(mood) ==
    LET base == IF mood \in DOMAIN mood_transitions THEN mood_transitions[mood] ELSE EmptyDict
    IN [t \in (DOMAIN base) \cup (DOMAIN dynamic_transitions) |->
           IF t \in DOMAIN dynamic_transitions THEN dynamic_transitions[t] ELSE base[t]]

\* the messages the mood controller is called with
MoodMessages ==
    {"Your account is blocked", "You WON a prize", "URGENT, do it now", "share the OTP",
     "click here", "trust me sir", "ok sorry", "police will arrest you",
     "why error? use hdfc", "send money"}

\* request.sessionId of the requests served by the engine: any string the client sends
MoodSessions == {"s1", "urgent-case-7"}

\* persona.py:266-430: msg_lower and the keyword tests `any(w in msg_lower for w in
\* [...])` of _update_mood, for each text the engine is called with
keyword_hits ==
    [m \in MoodMessages \cup MoodSessions |->
       LET msg_lower == Lower(m)
       IN [handoff      |-> AnyIn({"police", "jail", "arrest", "warrant"}, msg_lower),
           threat       |-> AnyIn({"block", "suspend", "police", "legal", "arrest", "case",
                                   "court"}, msg_lower),
           reward       |-> AnyIn({"won", "prize", "reward", "bonus", "gift", "free", "cash"},
                                  msg_lower),
           pressure     |-> AnyIn({"immediately", "urgent", "now", "hurry", "asap", "quick"},
                                  msg_lower),
           request_info |-> AnyIn({"upi", "account", "number", "otp", "pin", "password",
                                   "cvv"}, msg_lower),
           technical    |-> AnyIn({"link", "click", "download", "install", "verify", "app"},
                                  msg_lower),
           reassurance  |-> AnyIn({"trust me", "genuine", "real", "authentic", "official"},
                                  msg_lower),
           steer        |-> AnyIn({"download", "install", "anydesk", "teamviewer", "card",
                                   "cvv", "otp"}, msg_lower),
           greed        |-> AnyIn({"limit", "business", "merchant", "trust"}, msg_lower)
                            /\ Contains("trust", msg_lower),
           fear         |-> AnyIn({"click", "press", "button"}, msg_lower),
           reverse      |-> AnyIn({"why", "reason", "error", "screenshot"}, msg_lower),
           jealousy     |-> AnyIn({"send", "pay", "transfer", "deposit"}, msg_lower),
           bank         |-> AnyIn({"sbi", "hdfc", "icici", "axis", "kotak", "pnb"},
                                  msg_lower)]]

\* persona.py:270-288: the handoff applies on this call
should_switch(eng, hits, alert) ==
    /\ ~eng.handoff_triggered
    /\ \/ hits.handoff /\ eng.current_mood \in {"WORRIED", "ANXIOUS"}
       \/ alert

\* persona.py:294-305
has_financial(current_entities) ==
    \/ Get(current_entities, "bankAccounts") # <<>>
    \/ Get(current_entities, "upiIds") # <<>>
    \/ Get(current_entities, "phishingLinks") # <<>>

\* a one-element list if the condition holds, else the empty list
When(cond, trigger) == IF cond THEN <<trigger>> ELSE <<>>

\* persona.py:291-433: the list `triggers`, in the order the code appends to it;
\* jealous is the outcome of random.random() < 0.4.
detect_triggers(mood, hits, current_entities, jealous) ==
       When(has_financial(current_entities)
            /\ mood \in {"COOPERATIVE", "ANXIOUS", "HOPEFUL", "WORRIED"}, "failure")
    \o When(hits.threat, "threat")
    \o When(hits.reward, "reward")
    \o When(hits.pressure, "pressure")
    \o When(hits.request_info, "request_info")
    \o When(hits.technical, "technical")
    \o When(hits.reassurance, "reassurance")
    \o When(hits.steer /\ mood \in {"CONFUSED", "NEUTRAL", "WORRIED"}, "steer_to_upi")
    \o When(hits.greed /\ mood \notin {"BLACK_OPS_GREED", "BLACK_OPS_FEAR"},
            "trigger_greed")
    \o When(hits.fear /\ mood # "BLACK_OPS_FEAR", "trigger_fear")
    \o When(hits.reverse /\ mood = "FAKE_ERROR", "trigger_reverse")
    \o When(hits.jealousy /\ mood \notin {"BLACK_OPS_JEALOUSY", "BLACK_OPS_REVERSE"}
            /\ jealous, "trigger_jealousy")
    \o When(hits.bank /\ mood # "BLACK_OPS_BANK_FISH" /\ mood = "FAKE_ERROR",
            "trigger_bank_fish")

\* the loop over the triggers without its break: every trigger that is a key of the
\* transitions is applied in turn.
RECURSIVE apply_triggers_NoBreak(_, _, _)
apply_triggers_NoBreak(eng, triggers, transitions) ==
    IF triggers = <<>> THEN eng
    ELSE IF Head(triggers) = "steer_to_upi"
         THEN apply_triggers_NoBreak([eng EXCEPT !.steer_to_upi = TRUE], Tail(triggers),
                                     transitions)
    ELSE IF Head(triggers) \in DOMAIN transitions
              /\ transitions[Head(triggers)] # eng.current_mood
         THEN apply_triggers_NoBreak(
                  [eng EXCEPT
                      !.mood_history = Append(@, <<eng.current_mood,
                                                   transitions[Head(triggers)],
                                                   Head(triggers)>>),
                      !.current_mood = transitions[Head(triggers)]],
                  Tail(triggers), transitions)
    ELSE apply_triggers_NoBreak(eng, Tail(triggers), transitions)

\* persona.py:435-444: the loop over the triggers; it stops at the first trigger that
\* is a key of the transitions.
RECURSIVE apply_triggers(_, _, _)
apply_triggers(eng, triggers, transitions) ==
    IF triggers = <<>> THEN eng
    ELSE IF Head(triggers) = "steer_to_upi"
         THEN apply_triggers([eng EXCEPT !.steer_to_upi = TRUE], Tail(triggers), transitions)
    ELSE IF Head(triggers) \in DOMAIN transitions
         THEN IF transitions[Head(triggers)] # eng.current_mood
              THEN [eng EXCEPT
                      !.mood_history = Append(@, <<eng.current_mood,
                                                   transitions[Head(triggers)],
                                                   Head(triggers)>>),
                      !.current_mood = transitions[Head(triggers)]]
              ELSE eng
    ELSE apply_triggers(eng, Tail(triggers), transitions)

\* update_mood with the active persona derived from the mood after the call.
update_mood_PersonaFollowsMood(eng, scammer_message, current_entities, alert, jealous) ==
    LET hits == keyword_hits[scammer_message]
        next == IF should_switch(eng, hits, alert)
                THEN [eng EXCEPT !.handoff_triggered = TRUE, !.current_mood = "AGGRESSIVE"]
                ELSE apply_triggers(eng,
                        detect_triggers(eng.current_mood, hits, current_entities,
                                        jealous),
                        current_transitions(eng.current_mood))
    IN [next EXCEPT !.active_persona_key =
           IF next.current_mood = "AGGRESSIVE" THEN "son" ELSE "elderly"]

\* PersonaEngine._update_mood, persona.py:258-444, on the engine's fields
update_mood(eng, scammer_message, current_entities, alert, jealous) ==
    LET hits == keyword_hits[scammer_message]
    IN IF should_switch(eng, hits, alert)
       THEN [eng EXCEPT !.active_persona_key = "son",
                        !.handoff_triggered = TRUE,
                        !.current_mood = "AGGRESSIVE"]
       ELSE apply_triggers(eng,
               detect_triggers(eng.current_mood, hits, current_entities, jealous),
               current_transitions(eng.current_mood))

\* PersonaEngine.reset_mood, persona.py:638-641
reset_mood(eng) == [eng EXCEPT !.current_mood = "NEUTRAL", !.mood_history = <<>>]

\* the fields of the engine that the mood controller reads and writes
Engine ==
    [current_mood       |-> current_mood,
     active_persona_key |-> active_persona_key,
     handoff_triggered  |-> handoff_triggered,
     steer_to_upi       |-> steer_to_upi,
     mood_history       |-> mood_history]

SetEngine(eng) ==
    /\ current_mood' = eng.current_mood
    /\ active_persona_key' = eng.active_persona_key
    /\ handoff_triggered' = eng.handoff_triggered
    /\ steer_to_upi' = eng.steer_to_upi
    /\ mood_history' = eng.mood_history

MoodEntities ==
    {EmptyDict, EmptyEntities, [EmptyEntities EXCEPT !.upiIds = <<"scam@fakebank">>]}

\* persona.py:418-425: random.random() is drawn only when a payment word is in the text
JealousDraws(msg) == IF keyword_hits[msg].jealousy THEN BOOLEAN ELSE {FALSE}

\* one call of _update_mood on `persona`, the one PersonaEngine of the process
\* (main.py:53), made while serving a request of session s (None: a direct call);
\* the locals should_switch, has_financial and triggers are kept in mood_call.
MoodCall(s, msg, ents, alert, jealous) ==
    /\ mood_calls < MaxMoodCalls
    /\ mood_calls' = mood_calls + 1
    /\ SetEngine(update_mood(Engine, msg, ents, alert, jealous))
    /\ mood_call' =
          IF should_switch(Engine, keyword_hits[msg], alert)
          THEN [method |-> "_update_mood", session |-> s, triggers |-> <<>>,
                has_financial |-> FALSE, should_switch |-> TRUE]
          ELSE [method |-> "_update_mood", session |-> s,
                triggers |-> detect_triggers(current_mood, keyword_hits[msg], ents, jealous),
                has_financial |-> has_financial(ents), should_switch |-> FALSE]
    /\ UNCHANGED <<lifeVars, termVars, extVars>>

\* _update_mood called with any text, entities and alert
UpdateMood(msg, ents, alert, jealous) ==
    /\ msg \in MoodMessages
    /\ MoodCall(None, msg, ents, alert, jealous)

\* the call honeypot_endpoint makes, main.py:986-995 with persona.py:183-199: the
\* arguments are passed by position, so scammer_message receives session_id,
\* current_entities receives session_info["last_response"] (always "", main.py:793, 825)
\* and hive_mind_alert keeps its default None.
PersonaCall(s, jealous) ==
    /\ s \in MoodSessions
    /\ MoodCall(s, s, EmptyDict, FALSE, jealous)

ResetMood ==
    /\ mood_calls < MaxMoodCalls
    /\ mood_calls' = mood_calls + 1
    /\ SetEngine(reset_mood(Engine))
    /\ mood_call' = [method |-> "reset_mood", session |-> None, triggers |-> <<>>,
                     has_financial |-> FALSE, should_switch |-> FALSE]
    /\ UNCHANGED <<lifeVars, termVars, extVars>>

NextMood ==
    \/ \E s \in MoodSessions : \E jealous \in JealousDraws(s) : PersonaCall(s, jealous)
    \/ \E msg \in MoodMessages, ents \in MoodEntities, alert \in BOOLEAN :
          \E jealous \in JealousDraws(msg) : UpdateMood(msg, ents, alert, jealous)
    \/ ResetMood

SpecMood == Init /\ [][NextMood]_vars

\* C10: once the handoff has triggered (handoff_triggered set, active persona "son"),
\* no later call of _update_mood or reset_mood, with any text, entities or alert,
\* changes the active persona back.
C10_HandoffPersonaKept ==
    [][(handoff_triggered /\ active_persona_key = "son") => active_persona_key' = "son"]_vars

\* C10 witness: after the handoff a later call has moved the mood away from
\* AGGRESSIVE and the active persona is still "son".
C10_Witness ==
    /\ handoff_triggered
    /\ active_persona_key = "son"
    /\ current_mood # "AGGRESSIVE"

\* the step is one call of _update_mood (persona.py:197)
MoodTurn == mood_calls' = mood_calls + 1 /\ mood_call'.method = "_update_mood"

\* C11: on every call of _update_mood made after the handoff has triggered, with the
\* mood AGGRESSIVE, the controller short-circuits: the mood is still AGGRESSIVE after
\* the call, no keyword-trigger transition is applied.
C11_HandoffShortCircuits ==
    [][(handoff_triggered /\ current_mood = "AGGRESSIVE" /\ MoodTurn)
          => current_mood' = "AGGRESSIVE"]_vars

\* C12: a call of _update_mood that does not trigger the handoff, whose entities hold a
\* bank account, UPI id or phishing link and whose current mood is COOPERATIVE,
\* ANXIOUS, HOPEFUL or WORRIED, leaves the mood FAKE_ERROR whatever the text.
C12_FinancialForcesFakeError ==
    [][( /\ MoodTurn
         /\ mood_call'.has_financial
         /\ current_mood \in {"COOPERATIVE", "ANXIOUS", "HOPEFUL", "WORRIED"} )
          => current_mood' = "FAKE_ERROR"]_vars

\* the mood state, handoff flag and active persona the engine uses when it serves a
\* request of session a: the fields of the one `persona` object, main.py:53
MoodStateOf(a) ==
    [current_mood       |-> current_mood,
     handoff_triggered  |-> handoff_triggered,
     active_persona_key |-> active_persona_key]

\* C13: the persona call made for a request of session b leaves the mood state,
\* handoff flag and active persona used for every other session a unchanged.
C13_MoodScopedPerSession ==
    [][\A a \in MoodSessions :
          (MoodTurn /\ mood_call'.session \in MoodSessions \ {a})
          => MoodStateOf(a)' = MoodStateOf(a)]_vars

\* the first trigger of the list that is a key of the table, None if there is none
FirstKey(triggers, table) ==
    LET idx == {i \in 1..Len(triggers) : triggers[i] \in DOMAIN table}
    IN IF idx = {} THEN None
       ELSE triggers[CHOOSE i \in idx : \A j \in idx : i <= j]

\* the order in which _update_mood evaluates the triggers
TriggerOrder ==
    <<"failure", "threat", "reward", "pressure", "request_info", "technical",
      "reassurance", "steer_to_upi", "trigger_greed", "trigger_fear", "trigger_reverse",
      "trigger_jealousy", "trigger_bank_fish">>

\* the triggers are listed in the evaluation order, each at most once
InTriggerOrder(triggers) ==
    \A i, j \in 1..Len(triggers) :
        i < j => \E m, n \in 1..Len(TriggerOrder) :
                    m < n /\ TriggerOrder[m] = triggers[i] /\ TriggerOrder[n] = triggers[j]

\* C14: a call of _update_mood that does not trigger the handoff applies at most one
\* transition: that of the first trigger, in the fixed evaluation order, that is a key
\* of the current state's transition table; with no such trigger the mood is unchanged.
C14_OneTransitionPerCall ==
    [][(MoodTurn /\ ~mood_call'.should_switch)
          => LET table == current_transitions(current_mood)
                 k == FirstKey(mood_call'.triggers, table)
                 target == IF k = None THEN current_mood ELSE table[k]
             IN /\ InTriggerOrder(mood_call'.triggers)
                /\ current_mood' = target
                /\ mood_history' = IF target = current_mood THEN mood_history
                                   ELSE Append(mood_history, <<current_mood, target, k>>)]_vars

\* C14 witness: a call in mood WORRIED raised the triggers technical and trigger_fear,
\* both keys of the table; only technical, the first, was applied.
C14_Witness ==
    /\ mood_call.method = "_update_mood"
    /\ mood_call.triggers = <<"technical", "trigger_fear">>
    /\ mood_history # <<>>
    /\ mood_history[Len(mood_history)] = <<"WORRIED", "CONFUSED", "technical">>
    /\ current_mood = "CONFUSED"

\* the states of the mood controller
MoodStates ==
    {"NEUTRAL", "WORRIED", "EXCITED", "CONFUSED", "ANXIOUS", "HOPEFUL", "COOPERATIVE",
     "IMPATIENT", "OVERWHELMED", "FRUSTRATED", "TIRED", "GIVING_UP", "FAKE_ERROR",
     "AGGRESSIVE", "SKEPTICAL", "VICTORIOUS"}

\* C15: the mood starts as NEUTRAL and after any sequence of _update_mood calls is one
\* of the sixteen states of the controller.
C15_MoodInDeclaredStates ==
    /\ (mood_calls = 0 => current_mood = "NEUTRAL")
    /\ current_mood \in MoodStates

(***************************************************************************)
(* app/extractor.py: classify_at_sign_match and merge_extraction_results   *)
(***************************************************************************)
\* the index of the last occurrence of the character c in str, 0 if there is none
LastIndexOf(c, str) ==
    LET at == {i \in 1..Len(str) : SubSeq(str, i, i) = c}
    IN IF at = {} THEN 0 ELSE CHOOSE i \in at : \A j \in at : j <= i

\* extractor.py:53-83: both branches of the TLD test return 'email'
classify_at_sign_match(match) ==
    IF ~Contains("@", match) THEN "unknown"
    ELSE LET domain == SubSeq(match, LastIndexOf("@", match) + 1, Len(match))
         IN IF Contains(".", domain) THEN "email" ELSE "upi"

\* DedupLower that gives a value seen before the casing of its latest occurrence
RECURSIVE DedupLower_LastCasing(_, _, _)
DedupLower_LastCasing(vals, seen, merged_list) ==
    IF vals = <<>> THEN merged_list
    ELSE IF Head(vals) # "" /\ Lower(Head(vals)) \notin seen
         THEN DedupLower_LastCasing(Tail(vals), seen \cup {Lower(Head(vals))},
                                    Append(merged_list, Head(vals)))
         ELSE DedupLower_LastCasing(
                  Tail(vals), seen,
                  [i \in DOMAIN merged_list |->
                      IF Lower(merged_list[i]) = Lower(Head(vals))
                      THEN Head(vals) ELSE merged_list[i]])

\* extractor.py:197-202: the values in order, without the falsy ones and without those
\* whose lower-case form was seen before
RECURSIVE DedupLower(_, _, _)
DedupLower(vals, seen, merged_list) ==
    IF vals = <<>> THEN merged_list
    ELSE IF Head(vals) # "" /\ Lower(Head(vals)) \notin seen
         THEN DedupLower(Tail(vals), seen \cup {Lower(Head(vals))},
                         Append(merged_list, Head(vals)))
         ELSE DedupLower(Tail(vals), seen, merged_list)

\* SelectSeq with the test on classify_at_sign_match
RECURSIVE Classified(_, _, _)
Classified(vals, class, keep) ==
    IF vals = <<>> THEN <<>>
    ELSE (IF (classify_at_sign_match(Head(vals)) = class) = keep
          THEN <<Head(vals)>> ELSE <<>>) \o Classified(Tail(vals), class, keep)

\* AppendNewLower that appends every moved value
AppendNewLower_Always(target, moved) == target \o moved

\* `for v in moved: if v.lower() not in {x.lower() for x in target}: target.append(v)`
RECURSIVE AppendNewLower(_, _)
AppendNewLower(target, moved) ==
    IF moved = <<>> THEN target
    ELSE AppendNewLower(
             IF Lower(Head(moved)) \in {Lower(x) : x \in Range(target)}
             THEN target ELSE Append(target, Head(moved)),
             Tail(moved))

\* the non-list fields of the merged dict, extractor.py:235-239
OtherKeys == {"referenceNumbers", "organizationClaimed", "infoRequested", "raw_extraction"}

\* extractor.py:184-242: the dict the function returns
merge_extraction_results(regex_result, llm_result) ==
    LET merged == [key \in Range(AllKeys) |->
                      DedupLower(Get(regex_result, key) \o Get(llm_result, key), {}, <<>>)]
        reclassified_upis == Classified(merged.emailAddresses, "upi", TRUE)
        remaining_emails == Classified(merged.emailAddresses, "upi", FALSE)
        upiIds == AppendNewLower(merged.upiIds, reclassified_upis)
        reclassified_emails == Classified(upiIds, "email", TRUE)
        remaining_upis == Classified(upiIds, "email", FALSE)
        emailAddresses == AppendNewLower(remaining_emails, reclassified_emails)
    IN [key \in Range(AllKeys) \cup OtherKeys |->
          CASE key = "upiIds" -> remaining_upis
            [] key = "emailAddresses" -> emailAddresses
            [] key \in {"referenceNumbers", "infoRequested"} ->
                 IF Get(llm_result, key) # <<>> THEN Get(llm_result, key)
                 ELSE Get(regex_result, key)
            [] key = "organizationClaimed" ->
                 IF GetOr(llm_result, key, "") # "" THEN GetOr(llm_result, key, "")
                 ELSE GetOr(regex_result, key, "")
            [] key = "raw_extraction" -> GetOr(llm_result, key, EmptyDict)
            [] OTHER -> merged[key]]

\* values the two layers label: a UPI id, the same id in another casing, an e-mail
\* address, a string without @
MergeValues == {"pay@okaxis", "PAY@OKAXIS", "help@sbi.co", "9876543210"}

\* the lists of at most n values, none of them twice in the same casing (both layers
\* append under `val not in list`, extractor.py:117-122 and 437-455)
RECURSIVE ListsUpTo(_)
ListsUpTo(n) ==
    IF n = 0 THEN {<<>>}
    ELSE ListsUpTo(n - 1) \cup
         UNION {{Append(l, v) : v \in MergeValues \ Range(l)} : l \in ListsUpTo(n - 1)}

\* the lists of a kind that regex_extract builds from the @-matches of a text
\* (extractor.py:110-123): values of the class of the kind
MatchLists(class) ==
    {l \in ListsUpTo(2) : \A i \in 1..Len(l) : classify_at_sign_match(l[i]) = class}

RegexBundles ==
    {[EmptyEntities EXCEPT !.upiIds = u, !.emailAddresses = e] :
        u \in MatchLists("upi"), e \in MatchLists("email")}

\* the dict of EntityExtractor._empty_result, extractor.py:387-404
empty_result ==
    [key \in Range(AllKeys) \cup OtherKeys |->
        CASE key = "organizationClaimed" -> ""
          [] key = "raw_extraction" -> EmptyDict
          [] OTHER -> <<>>]

\* the AI-sourced bundle labels any value as UPI id, as e-mail address or as both;
\* raw_extraction is the parsed reply the labels came from (extractor.py:429-430)
LlmBundles ==
    {[empty_result EXCEPT
        !.upiIds = u, !.emailAddresses = e,
        !.organizationClaimed = IF u = <<>> THEN "" ELSE "SBI",
        !.raw_extraction = IF u = <<>> /\ e = <<>> THEN EmptyDict
                           ELSE [upi_ids |-> u, emails |-> e]] :
        u \in ListsUpTo(MaxLabelled), e \in ListsUpTo(MaxLabelled)}

\* the call merged = merge_extraction_results(regex_result, llm_result) of a turn,
\* extractor.py:281; the function keeps no state, a run makes one call
MergeCall ==
    /\ m_regex_result = EmptyDict
    /\ \E regex_result \in RegexBundles, llm_result \in LlmBundles :
          /\ m_regex_result' = regex_result
          /\ m_llm_result' = llm_result
          /\ m_merged' = merge_extraction_results(regex_result, llm_result)
    /\ UNCHANGED <<lifeVars, termVars, moodVars, regexVars, llmVars, turnVars, dynVars, tailVars>>

NextMerge == MergeCall

SpecMerge == Init /\ [][NextMerge]_vars

\* the values the inputs list as UPI id or e-mail address
LabelledValues ==
    UNION {Range(Get(b, k)) : b \in {m_regex_result, m_llm_result},
                              k \in {"upiIds", "emailAddresses"}}

\* v is in the list up to letter case
InLower(v, list) == Lower(v) \in {Lower(x) : x \in Range(list)}

\* the part of v after its last @ contains a dot
DotAfterAt(v) == Contains(".", SubSeq(v, LastIndexOf("@", v) + 1, Len(v)))

\* C20: in the result of the merge every @-bearing value of the inputs with a dot
\* after its last @ is (up to letter case) in emailAddresses and not in upiIds, every
\* @-bearing value without such a dot is in upiIds and not in emailAddresses, whatever
\* list the inputs had it in; and no value is in both lists.
C20_StructureOverridesLabel ==
    /\ \A v \in LabelledValues :
          Contains("@", v) =>
             IF DotAfterAt(v)
             THEN InLower(v, m_merged.emailAddresses) /\ ~InLower(v, m_merged.upiIds)
             ELSE InLower(v, m_merged.upiIds) /\ ~InLower(v, m_merged.emailAddresses)
    /\ Range(m_merged.upiIds) \cap Range(m_merged.emailAddresses) = {}

(***************************************************************************)
(* Idempotence of the merge                                                *)
(***************************************************************************)
\* every list of the bundle is empty
IsEmptyBundle(b) == \A k \in Range(AllKeys) : Get(b, k) = <<>>

\* the bundle holds no empty value, no value twice up to letter case, and each
\* @-bearing value of upiIds and emailAddresses under the kind its structure gives
NormalForm(b) ==
    /\ \A k \in Range(AllKeys) :
          LET l == Get(b, k)
          IN /\ \A i \in 1..Len(l) : l[i] # ""
             /\ \A i, j \in 1..Len(l) : Lower(l[i]) = Lower(l[j]) => i = j
    /\ \A v \in Range(Get(b, "upiIds")) : classify_at_sign_match(v) # "email"
    /\ \A v \in Range(Get(b, "emailAddresses")) : classify_at_sign_match(v) # "upi"

\* the two dicts agree on the keys
SameOn(keys, a, b) == \A k \in keys : a[k] = b[k]

PositionsLower(v, list) == {i \in 1..Len(list) : Lower(list[i]) = Lower(v)}

\* the first value of the list that equals v up to letter case
FirstLower(v, list) ==
    list[CHOOSE i \in PositionsLower(v, list) : \A j \in PositionsLower(v, list) : i <= j]

\* C23: the merge result holds, per kind, the values of both inputs without
\* duplicates up to letter case, those of the deterministic input first; a value that
\* both inputs list under a kind in different casing is in the result exactly once,
\* in the casing the deterministic input has it in first.
C23_DeterministicCasingWins ==
    m_regex_result # EmptyDict =>
       \A k \in Range(AllKeys) :
          /\ \A v \in Range(m_regex_result[k]) \cup Range(m_llm_result[k]) :
                \E k2 \in Range(AllKeys) : InLower(v, m_merged[k2])
          /\ \A i, j \in 1..Len(m_merged[k]) :
                Lower(m_merged[k][i]) = Lower(m_merged[k][j]) => i = j
          /\ \A v \in Range(m_regex_result[k]) :
                /\ Cardinality(PositionsLower(v, m_merged[k])) = 1
                /\ FirstLower(v, m_merged[k]) = FirstLower(v, m_regex_result[k])
                /\ \A k2 \in Range(AllKeys) \ {k} : ~InLower(v, m_merged[k2])
          /\ \A i, j \in 1..Len(m_merged[k]) :
                /\ InLower(m_merged[k][i], m_regex_result[k])
                /\ ~InLower(m_merged[k][j], m_regex_result[k])
                => i < j

\* both inputs list the UPI id, in different casing, and the result has the casing
\* of the deterministic input
C23_Witness ==
    /\ m_regex_result # EmptyDict
    /\ m_regex_result.upiIds = <<"pay@okaxis">>
    /\ "PAY@OKAXIS" \in Range(m_llm_result.upiIds)
    /\ "pay@okaxis" \in Range(m_merged.upiIds)
    /\ "PAY@OKAXIS" \notin Range(m_merged.upiIds)

(***************************************************************************)
(* app/extractor.py: regex_extract                                         *)
(*                                                                         *)
(* A text is the list of its whitespace-separated words.  The words of     *)
(* Words hold no URL, no "+91" prefix, no currency mark and none of the    *)
(* lead-ins "case", "policy", "order", so URL_PATTERN, the hyphenated      *)
(* phone pattern, AMOUNT_PATTERN, CASE_ID_PATTERN, POLICY_PATTERN and      *)
(* ORDER_PATTERN find nothing, and every other pattern matches whole words.*)
(***************************************************************************)
Words == {"pay@okaxis", "PAY@OKAXIS", "help@sbi.co", "50100123456789", "9876543210",
          "urgent"}

Texts == UNION {[1..n -> Words] : n \in 0..MaxWords}

IsDigits(w) == \A i \in 1..Len(w) : SubSeq(w, i, i) \in
                  {"0", "1", "2", "3", "4", "5", "6", "7", "8", "9"}

\* AT_PATTERN, extractor.py:35
IsAtMatch(w) == Contains("@", w) /\ SubSeq(w, 1, 1) # "@" /\ SubSeq(w, Len(w), Len(w)) # "@"
\* PHONE_PATTERN, extractor.py:30-32
IsPhoneMatch(w) ==
    IsDigits(w) /\ Len(w) = 10 /\ SubSeq(w, 1, 1) \in {"6", "7", "8", "9"}
\* BANK_ACCOUNT_PATTERN, extractor.py:33
IsBankMatch(w) == IsDigits(w) /\ Len(w) >= 9 /\ Len(w) <= 18

\* pattern.findall(text): the matching words in the order of the text
RECURSIVE FindAll(_, _)
FindAll(Matches(_), text) ==
    IF text = <<>> THEN <<>>
    ELSE (IF Matches(Head(text)) THEN <<Head(text)>> ELSE <<>>) \o FindAll(Matches, Tail(text))

\* list(set(matches)): the distinct matches in any order
ListOfSet(matches) ==
    {l \in [1..Cardinality(Range(matches)) -> Range(matches)] : Range(l) = Range(matches)}

\* `for match in at_matches: ... if match not in result[kind]: result[kind].append(match)`
\* for the matches of one class, extractor.py:110-123
RECURSIVE AtMatchesOf(_, _, _)
AtMatchesOf(class, at_matches, acc) ==
    IF at_matches = <<>> THEN acc
    ELSE AtMatchesOf(class, Tail(at_matches),
                     IF classify_at_sign_match(Head(at_matches)) = class
                        /\ Head(at_matches) \notin Range(acc)
                     THEN Append(acc, Head(at_matches)) ELSE acc)

\* extractor.py:132-141: the bank matches that are no phone number
RECURSIVE BankAccountsOf(_, _)
BankAccountsOf(bank_matches, phone_digits) ==
    IF bank_matches = <<>> THEN <<>>
    ELSE LET b == Head(bank_matches)
         IN (IF b \notin phone_digits /\ Len(b) >= 9
                /\ ~(Len(b) = 10 /\ SubSeq(b, 1, 1) \in {"6", "7", "8", "9"})
             THEN <<b>> ELSE <<>>) \o BankAccountsOf(Tail(bank_matches), phone_digits)

\* "\n".join / " ".join of the words
RECURSIVE JoinWords(_)
JoinWords(text) ==
    IF text = <<>> THEN ""
    ELSE IF Len(text) = 1 THEN Head(text)
    ELSE Head(text) \o " " \o JoinWords(Tail(text))

\* text.lower(), taken word by word
LowerText(text) == JoinWords([i \in DOMAIN text |-> Lower(text[i])])

\* scam_keywords, extractor.py:160-168
scam_keywords ==
    <<"urgent", "immediately", "blocked", "suspended", "verify", "click",
      "upi", "account", "otp", "kyc", "update", "bank",
      "police", "legal action", "arrest", "it department",
      "won", "lottery", "prize", "cashback", "reward",
      "job offer", "work from home", "part time",
      "anydesk", "teamviewer", "remote access">>

\* extractor.py:169-172
RECURSIVE KeywordsOf(_, _, _)
KeywordsOf(kws, text_lower, acc) ==
    IF kws = <<>> THEN acc
    ELSE KeywordsOf(Tail(kws), text_lower,
                    IF Contains(Head(kws), text_lower) /\ Head(kws) \notin Range(acc)
                    THEN Append(acc, Head(kws)) ELSE acc)

\* extractor.py:86-181; phoneNumbers is the order list(set(...)) gave the phone matches
regex_extract(text, phoneNumbers) ==
    [EmptyEntities EXCEPT
       !.upiIds = AtMatchesOf("upi", FindAll(IsAtMatch, text), <<>>),
       !.emailAddresses = AtMatchesOf("email", FindAll(IsAtMatch, text), <<>>),
       !.phoneNumbers = phoneNumbers,
       !.bankAccounts = BankAccountsOf(FindAll(IsBankMatch, text), Range(phoneNumbers)),
       !.suspiciousKeywords = KeywordsOf(scam_keywords, LowerText(text), <<>>)]

\* one call regex_result = regex_extract(text); the function keeps no state, a run
\* makes one call
RegexExtract ==
    /\ x_result = EmptyDict
    /\ \E text \in Texts :
          \E phoneNumbers \in ListOfSet(FindAll(IsPhoneMatch, text)) :
             /\ x_text' = text
             /\ x_result' = regex_extract(text, phoneNumbers)
    /\ UNCHANGED <<lifeVars, termVars, moodVars, mergeVars, llmVars, turnVars, dynVars, tailVars>>

NextRegex == RegexExtract

SpecRegex == Init /\ [][NextRegex]_vars

\* C22: regex_extract returns for every text a bundle in which no kind holds two
\* values that are equal up to letter case.
C22_RegexBundleHasNoDuplicates ==
    x_result # EmptyDict =>
       \A k \in Range(AllKeys) :
          \A i, j \in 1..Len(x_result[k]) :
             Lower(x_result[k][i]) = Lower(x_result[k][j]) => i = j

(***************************************************************************)
(* app/extractor.py: EntityExtractor.extract_entities, _llm_extract and    *)
(* _flatten_for_guvi                                                       *)
(*                                                                         *)
(* A JSON value is the pair of its type and its content: the text of a     *)
(* string or of a number, the list of the elements, the dict of an object. *)
(***************************************************************************)
JStr(str) == <<"str", str>>
JNum(digits) == <<"num", digits>>
JNull == <<"null", "">>
JList(l) == <<"list", l>>
JObj(o) == <<"obj", o>>

\* bool(x)
Truthy(x) ==
    CASE x[1] = "str" -> x[2] # ""
      [] x[1] = "num" -> x[2] # "0"
      [] x[1] = "null" -> FALSE
      [] x[1] = "list" -> x[2] # <<>>
      [] x[1] = "obj" -> DOMAIN x[2] # {}

\* x.get(key, default) on a dict
DictGet(x, key, default) == IF key \in DOMAIN x[2] THEN x[2][key] ELSE default

\* `for el in x` runs: over the elements of a list, over the characters of a string;
\* a number and null raise TypeError (the replies of the model hold no object where
\* a list is expected)
Iterable(x) == x[1] \in {"list", "str"}
Items(x) == IF x[1] = "list" THEN x[2] ELSE [i \in 1..Len(x[2]) |-> JStr(SubSeq(x[2], i, i))]

\* `el["value"] if isinstance(el, dict) else el`
ValueOf(el) == IF el[1] = "obj" THEN el[2]["value"] ELSE el

\* the field `field` of the object `group` of the parsed reply
FieldOf(extracted, group, field) ==
    DictGet(DictGet(extracted, group, JObj(EmptyDict)), field, JList(<<>>))

\* reading and walking the field raises: the group is no dict (AttributeError), the
\* field cannot be iterated (TypeError), an element is a dict without "value" (KeyError)
FieldRaises(extracted, group, field) ==
    \/ DictGet(extracted, group, JObj(EmptyDict))[1] # "obj"
    \/ ~Iterable(FieldOf(extracted, group, field))
    \/ \E el \in Range(Items(FieldOf(extracted, group, field))) :
          el[1] = "obj" /\ "value" \notin DOMAIN el[2]

\* `for el in field: val = ...; if val and val not in acc: acc.append(val)`; with
\* dedup = FALSE the loops of amounts and reference_numbers, `if val: acc.append(val)`
RECURSIVE FlattenInto(_, _, _)
FlattenInto(acc, items, dedup) ==
    IF items = <<>> THEN acc
    ELSE FlattenInto(IF Truthy(ValueOf(Head(items)))
                        /\ (dedup => ValueOf(Head(items)) \notin Range(acc))
                     THEN Append(acc, ValueOf(Head(items))) ELSE acc,
                     Tail(items), dedup)

\* classify_at_sign_match on a JSON value: `'@' not in match` raises TypeError on a
\* number, and is true of a list that has no element '@'
ClassifyRaises(val) == val[1] = "num"
ClassOf(val) == IF val[1] = "str" THEN classify_at_sign_match(val[2]) ELSE "unknown"

\* the truthy values of contact.emails
EmailValues(extracted) ==
    FlattenInto(<<>>, Items(FieldOf(extracted, "contact", "emails")), FALSE)

\* extractor.py:446-455: the e-mail values of the class go to the list
RECURSIVE EmailsInto(_, _, _)
EmailsInto(acc, vals, upi) ==
    IF vals = <<>> THEN acc
    ELSE EmailsInto(IF (ClassOf(Head(vals)) = "upi") = upi /\ Head(vals) \notin Range(acc)
                    THEN Append(acc, Head(vals)) ELSE acc,
                    Tail(vals), upi)

\* the list fields of the reply that _flatten_for_guvi walks, extractor.py:432-494
FlattenedFields ==
    {<<"financial", "bank_accounts">>, <<"financial", "upi_ids">>,
     <<"contact", "phone_numbers">>, <<"contact", "emails">>,
     <<"infrastructure", "phishing_links">>, <<"operational", "amounts">>,
     <<"operational", "reference_numbers">>, <<"operational", "case_ids">>,
     <<"operational", "policy_numbers">>, <<"operational", "order_numbers">>}

\* _flatten_for_guvi raises
FlattenRaises(extracted) ==
    \/ extracted[1] # "obj"
    \/ \E f \in FlattenedFields : FieldRaises(extracted, f[1], f[2])
    \/ \E val \in Range(EmailValues(extracted)) : ClassifyRaises(val)
    \/ DictGet(extracted, "victim_targeted", JObj(EmptyDict))[1] # "obj"
    \/ LET summary == DictGet(extracted, "extraction_summary", JStr(""))
       IN Truthy(summary) /\ summary[1] # "str"

\* the keywords of the summary, extractor.py:500-505
summary_keywords ==
    <<"urgent", "immediately", "blocked", "verify", "upi", "account", "otp", "kyc",
      "suspended">>

\* extractor.py:427-507, for a reply it does not raise on; the lists hold JSON values
flatten_for_guvi(extracted) ==
    LET From(group, field, dedup) ==
            FlattenInto(<<>>, Items(FieldOf(extracted, group, field)), dedup)
        summary == DictGet(extracted, "extraction_summary", JStr(""))
    IN [key \in Range(AllKeys) \cup OtherKeys |->
          CASE key = "bankAccounts" -> From("financial", "bank_accounts", TRUE)
            [] key = "upiIds" ->
                 EmailsInto(From("financial", "upi_ids", TRUE), EmailValues(extracted), TRUE)
            [] key = "phoneNumbers" -> From("contact", "phone_numbers", TRUE)
            [] key = "emailAddresses" -> EmailsInto(<<>>, EmailValues(extracted), FALSE)
            [] key = "phishingLinks" -> From("infrastructure", "phishing_links", TRUE)
            [] key = "amounts" -> From("operational", "amounts", FALSE)
            [] key = "referenceNumbers" -> From("operational", "reference_numbers", FALSE)
            [] key = "caseIds" -> From("operational", "case_ids", TRUE)
            [] key = "policyNumbers" -> From("operational", "policy_numbers", TRUE)
            [] key = "orderNumbers" -> From("operational", "order_numbers", TRUE)
            [] key = "organizationClaimed" ->
                 DictGet(DictGet(extracted, "operational", JObj(EmptyDict)),
                         "organization_claimed", JStr(""))
            [] key = "infoRequested" ->
                 DictGet(DictGet(extracted, "victim_targeted", JObj(EmptyDict)),
                         "info_requested", JList(<<>>))
            [] key = "suspiciousKeywords" ->
                 [i \in DOMAIN KeywordsOf(summary_keywords, Lower(summary[2]), <<>>) |->
                     JStr(KeywordsOf(summary_keywords, Lower(summary[2]), <<>>)[i])]
            [] key = "raw_extraction" -> extracted]

\* what the chat completion call gave: an exception (no key, network, timeout of the
\* client), a text json.loads rejects, or a text it parses to `extracted`
ApiError == [kind |-> "error", extracted |-> JNull]
Unparseable == [kind |-> "JSONDecodeError", extracted |-> JNull]
Parsed(extracted) == [kind |-> "parsed", extracted |-> extracted]

\* the reply {group: {field: value}}
OneField(group, field, value) ==
    JObj([g \in {group} |-> JObj([f \in {field} |-> value])])

\* replies in the requested structure
WellFormedReplies ==
    {Parsed(OneField("financial", "upi_ids", JList(<<JStr("PAY@OKAXIS")>>))),
     Parsed(OneField("financial", "upi_ids",
                     JList(<<JObj([value |-> JStr("pay@okaxis")])>>))),
     Parsed(OneField("contact", "emails", JList(<<JStr("pay@okaxis")>>))),
     Parsed(OneField("financial", "bank_accounts", JList(<<JStr("50100123456789")>>)))}

\* replies that are not: no JSON, no object, keys missing, a field that is no list,
\* list elements that are no strings
MalformedReplies ==
    {Unparseable,
     Parsed(JList(<<>>)),
     Parsed(JObj(EmptyDict)),
     Parsed(JObj([financial |-> JStr("pay@okaxis")])),
     Parsed(OneField("financial", "upi_ids", JNull)),
     Parsed(OneField("financial", "upi_ids", JStr("ab"))),
     Parsed(OneField("financial", "bank_accounts", JList(<<JNum("50100123456789")>>))),
     Parsed(OneField("financial", "upi_ids", JList(<<JObj([id |-> JStr("pay@okaxis")])>>))),
     Parsed(OneField("contact", "emails", JList(<<JNum("5")>>))),
     Parsed(OneField("contact", "emails", JList(<<JList(<<JStr("help@sbi.co")>>)>>)))}

Replies == {ApiError} \cup WellFormedReplies \cup MalformedReplies

\* extractor.py:342-385: the dict _llm_extract returns
llm_extract(reply) ==
    IF reply.kind # "parsed" \/ FlattenRaises(reply.extracted)
    THEN [key \in DOMAIN empty_result |->
            CASE key = "organizationClaimed" -> JStr("")
              [] key = "raw_extraction" -> JObj(EmptyDict)
              [] key = "infoRequested" -> JList(<<>>)
              [] OTHER -> <<>>]
    ELSE flatten_for_guvi(reply.extracted)

\* `val.lower()` at extractor.py:200 raises AttributeError on a value that is no string
MergeRaises(llm_result) ==
    \E key \in Range(AllKeys) : \E val \in Range(llm_result[key]) : val[1] # "str"

\* the AI-sourced dict with its strings as strings; raw_extraction stays a JSON value
Plain(llm_result) ==
    [key \in DOMAIN llm_result |->
        CASE key = "organizationClaimed" -> llm_result[key][2]
          [] key = "infoRequested" ->
               [i \in DOMAIN llm_result[key][2] |-> llm_result[key][2][i][2]]
          [] key = "raw_extraction" -> llm_result[key]
          [] OTHER -> [i \in DOMAIN llm_result[key] |-> llm_result[key][i][2]]]

\* the prompt text of _build_conversation_text for an empty history, extractor.py:423
conversation_text(current_message) == <<"Scammer", "(current):">> \o current_message

\* extractor.py:263-285: one call of extract_entities on a message without history;
\* the function has no handler around the merge
ExtractEntities ==
    /\ x_out = EmptyDict
    /\ \E current_message \in Texts, reply \in Replies :
          \E phoneNumbers \in ListOfSet(FindAll(IsPhoneMatch, current_message)) :
             LET regex_result == regex_extract(conversation_text(current_message),
                                               phoneNumbers)
                 llm_result == llm_extract(reply)
             IN /\ x_text' = current_message
                /\ x_result' = regex_result
                /\ x_reply' = reply
                /\ x_out' = IF MergeRaises(llm_result)
                            THEN [raised |-> "AttributeError", merged |-> EmptyDict]
                            ELSE [raised |-> None,
                                  merged |-> merge_extraction_results(
                                                 regex_result, Plain(llm_result))]
    /\ UNCHANGED <<lifeVars, termVars, moodVars, mergeVars, turnVars, dynVars, tailVars>>

NextExtract == ExtractEntities

SpecExtract == Init /\ [][NextExtract]_vars

\* C24: for every malformed reply extract_entities raises no error and returns the
\* deterministic bundle alone: each kind of the result holds the values regex_extract
\* found for it (without duplicates up to letter case) and nothing else.
C24_MalformedReplyGivesRegexBundle ==
    x_out # EmptyDict /\ x_reply \in MalformedReplies =>
       /\ x_out.raised = None
       /\ \A k \in Range(AllKeys) : x_out.merged[k] = DedupLower(x_result[k], {}, <<>>)

(***************************************************************************)
(* app/main.py: one turn of honeypot_endpoint for a first message without  *)
(* conversationHistory and without meta wrapper, its background task and   *)
(* the inactivity monitor                                                  *)
(***************************************************************************)
\* the messages of the driven turn, as lists of words
TurnTexts ==
    {<<"hello">>, <<"urgent", "verify", "pay@okaxis">>,
     <<"send", "50100123456789", "9876543210">>}

\* what the chat completion call of ScamDetector.analyze gave: a JSON object with the
\* requested keys (confidence in hundredths), one whose "tactics" is null, an exception
Analysed(is_scam, confidence, scam_type, tactics) ==
    [kind |-> "analysed", is_scam |-> is_scam, confidence |-> confidence,
     scam_type |-> scam_type, tactics |-> tactics]
ClassifierError ==
    [kind |-> "error", is_scam |-> FALSE, confidence |-> 0, scam_type |-> "UNKNOWN",
     tactics |-> JNull]
ClassifierReplies ==
    {Analysed(TRUE, 90, "BANK_FRAUD", JList(<<"urgency">>)),
     Analysed(TRUE, 60, "JOB_SCAM", JList(<<"urgency">>)),
     Analysed(FALSE, 10, "UNKNOWN", JList(<<>>)),
     Analysed(TRUE, 90, "BANK_FRAUD", JNull),
     ClassifierError}

\* detector.py:163-192, confidence in hundredths
fallback_analysis(message) ==
    LET fallback_keywords == {"urgent", "blocked", "verify", "upi", "account", "won", "prize"}
        matches == Cardinality({kw \in fallback_keywords : Contains(kw, LowerText(message))})
    IN [is_scam    |-> matches >= 2,
        confidence |-> IF matches * 20 < 70 THEN matches * 20 ELSE 70,
        scam_type  |-> "UNKNOWN",
        tactics    |-> JList(<<>>)]

\* detector.py:64-106: ScamDetector.analyze
analyze(message, det) ==
    IF det.kind = "error" THEN fallback_analysis(message)
    ELSE [is_scam |-> det.is_scam, confidence |-> det.confidence,
          scam_type |-> det.scam_type, tactics |-> det.tactics]

\* what the extractor's chat completion call gave in the driven turn
TurnReplies ==
    {ApiError, Unparseable,
     Parsed(OneField("financial", "upi_ids", JList(<<JStr("PAY@OKAXIS")>>))),
     Parsed(OneField("financial", "bank_accounts", JList(<<JNum("50100123456789")>>)))}

\* extractor.py:263-285: the dict extract_entities returns or the error it raises
extract_entities(current_message, reply, phoneNumbers) ==
    IF MergeRaises(llm_extract(reply))
    THEN [raised |-> "AttributeError", merged |-> EmptyDict]
    ELSE [raised |-> None,
          merged |-> merge_extraction_results(
                         regex_extract(conversation_text(current_message), phoneNumbers),
                         Plain(llm_extract(reply)))]

\* main.py:835-881: the gather of detector and extractor under wait_for(timeout=10.0),
\* the confidence boost, and the two except branches
ai_phase(message, det, reply, phoneNumbers, timed_out) ==
    LET analysis == analyze(message, det)
        out == extract_entities(message, reply, phoneNumbers)
    IN IF timed_out \/ out.raised # None
       THEN [is_scam |-> TRUE, confidence |-> 50, scam_type |-> "UNKNOWN",
             tactics |-> JList(<<>>), extracted |-> FallbackExtracted]
       ELSE [is_scam    |-> analysis.is_scam,
             confidence |-> IF analysis.is_scam /\ analysis.confidence < 85
                               /\ Truthy(analysis.tactics)
                            THEN 85 ELSE analysis.confidence,
             scam_type  |-> analysis.scam_type,
             tactics    |-> analysis.tactics,
             extracted  |-> out.merged]

\* re.sub(r'[^\d]', '', phone)
RECURSIVE DigitsOf(_)
DigitsOf(str) ==
    IF str = "" THEN ""
    ELSE (IF IsDigits(SubSeq(str, 1, 1)) THEN SubSeq(str, 1, 1) ELSE "")
         \o DigitsOf(SubSeq(str, 2, Len(str)))

\* main.py:63-72
normalize_phone(phone) ==
    LET all == DigitsOf(phone)
        digits == IF Len(all) = 12 /\ SubSeq(all, 1, 2) = "91" THEN SubSeq(all, 3, 12)
                  ELSE all
    IN IF Len(digits) = 10 /\ SubSeq(digits, 1, 1) \in {"6", "7", "8", "9"}
       THEN "+91-" \o digits
       ELSE phone

\* main.py:944-953
RECURSIVE normalized_phones(_, _)
normalized_phones(phones, acc) ==
    IF phones = <<>> THEN acc
    ELSE normalized_phones(Tail(phones),
                           IF normalize_phone(Head(phones)) \in Range(acc) THEN acc
                           ELSE Append(acc, normalize_phone(Head(phones))))

\* persona.py:183-256 as main.py:986-995 calls it: the message text is bound to
\* `history`, the entities dict to `persona_type`. The result is the exception that
\* leaves the coroutine, or "3-tuple" for its return value.
generate_response(engine_key, history_type, persona_type_type, llm) ==
    IF engine_key = "elderly" /\ persona_type_type = "dict" THEN "TypeError"
    ELSE IF history_type = "str" THEN "AttributeError"
    ELSE IF llm = "timeout" THEN "TimeoutError"
    ELSE "3-tuple"

\* main.py:1004-1027
fallback_responses(active_persona) ==
    CASE active_persona = "elderly" ->
           <<"Beta, thoda samajh nahi aa raha. Aap phir se bata sakte ho? Aapka phone number kya hai?",
             "Arre, confusion ho raha hai. Thoda dheere bataiye na? Aapka naam kya hai sir?",
             "Ji, main bujho gayi. Ek minute, apni beti se pooch ke bolti hoon. Aapka employee ID kya hai?",
             "Sirji, kya aap fir se bata sakte hain? Network problem ho raha hai. Aapka UPI ID bataiye?",
             "Beta, phone ka signal nahi aa raha. Dusre number par call kijiye. Aapka number kya hai?",
             "Arre, main darr gayi. Thoda time dijiye, heart tez ho raha hai. Aap kis branch se bol rahe ho?",
             "Ji, main apne beta ko dikhati hoon. Ek minute lagega. Aapka full name kya hai?">>
      [] active_persona = "homemaker" ->
           <<"Ek minute, main confuse ho gayi. Phir se samjhana? Aapka phone number kya hai?",
             "Arre, kya bol rahe ho? Thoda dheere boliye. Aapka naam kya hai?",
             "Ji, wait kijiye. Main apne husband se pooch ke bolti hoon. Aapka employee ID batana?",
             "Sorry, network issue hai. Repeat karna? Aapka UPI ID kya hai?">>
      [] active_persona = "student" ->
           <<"Sorry bro, network issue hai. Repeat karna? Apna phone number do na?",
             "Arre yaar, phone hang ho gaya. Thoda wait karo. Tumhara naam kya hai?",
             "Bro, kya bol rahe ho? Clarity nahi aa rahi. Apna UPI ID bhejo?",
             "Dude, slow down. Samajh nahi aaya. Company ka website kya hai?">>
      [] OTHER ->
           <<"Sir, mujhe samajh nahi aaya. Aap phir se bataiye? Aapka phone number kya hai?",
             "Arre, confusion ho gaya. Thoda dheere se explain kijiye. Aapka naam bataiye?",
             "Ji, main nervous ho gayi. Ek minute lijiye. Aapka employee ID kya hai?">>

\* main.py:1046-1053
fallback_generic ==
    <<"Ek minute please, thoda confusion ho raha hai. Aapka phone number kya hai?",
      "Ji, thoda time dijiye. Samajh nahi aa raha. Aapka naam bataiye?",
      "Arre, kya bol rahe ho? Dheere bataiye. Aapka UPI ID kya hai?",
      "Sorry, network problem ho raha hai. Aapka employee ID bataiye?",
      "Ji, main darr gayi. Aap konsi company se bol rahe ho? Phone number dijiye?",
      "Beta, thoda samjhao. Office ka address kya hai? Phone number do?">>

\* response_text without the turn-based rotation: always the first text of the pool
response_text_FixedIndex(generated, active_persona, turn) ==
    IF generated = "TimeoutError"
    THEN fallback_responses(active_persona)[1]
    ELSE fallback_generic[1]

\* main.py:984-1055: the text the turn answers with. A returned 3-tuple does not
\* unpack into `response_text, persona_id` (ValueError, taken by `except Exception`).
response_text(generated, active_persona, turn) ==
    IF generated = "TimeoutError"
    THEN fallback_responses(active_persona)[(turn % Len(fallback_responses(active_persona))) + 1]
    ELSE fallback_generic[(turn % Len(fallback_generic)) + 1]

\* main.py:884-1097 after the AI phase gave `ai`: scam type and persona, the tactics
\* loop (a TypeError outside every handler when "tactics" is null: HTTP 500), the phone
\* normalisation, the accumulation, the reply.
finish_turn(ai, turn, generated) ==
    LET info == [NewSessionInfo EXCEPT !.message_count = turn]
        typed == WithAnalysis(info, ai.is_scam, ai.scam_type, ai.tactics[2])
        extracted == IF Get(ai.extracted, "phoneNumbers") # <<>>
                     THEN Put(ai.extracted, "phoneNumbers",
                              normalized_phones(ai.extracted["phoneNumbers"], <<>>))
                     ELSE ai.extracted
        st == Accumulate([entities |-> typed.extracted_entities, hive |-> EmptyDict,
                          alert |-> None],
                         Pairs(extracted, AccumulateKeys))
    IN IF ai.tactics[1] = "null"
       THEN [ai   |-> ai,
             info |-> WithAnalysis(info, ai.is_scam, ai.scam_type, <<>>),
             resp |-> [status |-> "500", reply |-> ""]]
       ELSE [ai   |-> [ai EXCEPT !.extracted = extracted],
             info |-> [typed EXCEPT !.extracted_entities = st.entities],
             resp |-> [status |-> "success",
                       reply  |-> response_text(generated, typed.persona_type, turn)]]

MaxCount == 2
StoreStates == {"ok", "unavailable"}
EngineKeys == {"elderly", "student"}

\* main.py:711-1097. With the store unavailable the first query of the handler
\* (load_session_state, main.py:750) raises and the caller gets HTTP 500.
HoneypotEndpoint ==
    /\ u_pc = "idle"
    /\ \E message \in TurnTexts, turn \in 1..MaxCount, det \in ClassifierReplies,
          reply \in TurnReplies, timed_out \in BOOLEAN, store \in StoreStates,
          engine_key \in EngineKeys, llm \in {"returns", "timeout"} :
          \E phoneNumbers \in ListOfSet(FindAll(IsPhoneMatch, message)) :
             /\ u_in' = [message |-> message, turn |-> turn, det |-> det, reply |-> reply,
                         timed_out |-> timed_out, store |-> store,
                         regex |-> regex_extract(conversation_text(message), phoneNumbers)]
             /\ IF store = "unavailable"
                THEN /\ u_pc' = "failed"
                     /\ u_resp' = [status |-> "500", reply |-> ""]
                     /\ UNCHANGED <<u_ai, u_info>>
                ELSE /\ u_ai' = finish_turn(ai_phase(message, det, reply, phoneNumbers, timed_out),
                                            turn, generate_response(engine_key, "str", "dict", llm)).ai
                     /\ u_info' = finish_turn(ai_phase(message, det, reply, phoneNumbers, timed_out),
                                              turn, generate_response(engine_key, "str", "dict", llm)).info
                     /\ u_resp' = finish_turn(ai_phase(message, det, reply, phoneNumbers, timed_out),
                                              turn, generate_response(engine_key, "str", "dict", llm)).resp
                     /\ u_pc' = IF u_resp'.status = "success" THEN "answered" ELSE "failed"
    /\ UNCHANGED <<lifeVars, termVars, moodVars, mergeVars, regexVars, llmVars, dynVars, tailVars,
                   u_db, u_hook>>

\* main.py:560-615, run after the response has been sent: save_conversation,
\* save_session_state, then the monitor is started. `saved` is the number of writes
\* that succeeded before the store failed; the handler logs the exception.
ProcessBackgroundTasks ==
    /\ u_pc = "answered"
    /\ \E saved \in 0..2 :
          /\ u_db' = [messages      |-> IF saved >= 1
                                        THEN save_conversation(u_db.messages, u_ai.extracted)
                                        ELSE u_db.messages,
                      session_state |-> IF saved = 2 THEN save_session_state(u_info)
                                        ELSE u_db.session_state]
          /\ u_pc' = IF saved = 2 THEN "saved" ELSE "lost"
    /\ UNCHANGED <<lifeVars, termVars, moodVars, mergeVars, regexVars, llmVars, dynVars, tailVars,
                   u_in, u_ai, u_info, u_resp, u_hook>>

\* the payload of main.py:326-343
callback_payload(info) ==
    [totalMessagesExchanged |-> info.message_count * 2,
     extractedIntelligence  |-> info.extracted_entities]

\* main.py:350-366 on [requests, outcome, backup]: one requests.post; the backup file
\* is written in the except branch
WebhookOutcomes == {"200", "500", "exception"}
send_guvi_callback(hook, payload, outcome) ==
    [requests |-> hook.requests + 1,
     outcome  |-> outcome,
     backup   |-> IF outcome = "exception" THEN payload ELSE hook.backup]

\* main.py:373-474 for the only monitor of the session, once its sleep is over
MonitorInactivityAndCallback ==
    /\ u_pc = "saved"
    /\ ~u_info.callback_sent
    /\ \E outcome \in WebhookOutcomes, store \in StoreStates :
          /\ u_hook' = send_guvi_callback(u_hook, callback_payload(u_info), outcome)
          /\ u_info' = [u_info EXCEPT !.callback_sent = TRUE]
          /\ u_db' = IF store = "ok"
                     THEN [u_db EXCEPT !.session_state = save_session_state(u_info')]
                     ELSE u_db
    /\ u_pc' = "reported"
    /\ UNCHANGED <<lifeVars, termVars, moodVars, mergeVars, regexVars, llmVars, dynVars, tailVars,
                   u_in, u_ai, u_resp>>

NextTurn == HoneypotEndpoint \/ ProcessBackgroundTasks \/ MonitorInactivityAndCallback

SpecTurn == Init /\ [][NextTurn]_vars

\* the turn ran with one of its AI calls failing: the wait_for timed out, a chat
\* completion call raised, the extractor's reply was no JSON, or the merge raised
AiFailed ==
    \/ u_in.timed_out
    \/ u_in.det.kind = "error"
    \/ u_in.reply.kind # "parsed"
    \/ MergeRaises(llm_extract(u_in.reply))

\* C25: when the AI calls of a turn time out or fail, every entity regex_extract finds
\* in the current message is in the turn's extracted bundle and in the entities
\* accumulated in the session (phone numbers in their normalised form).
C25_DegradesToRegexOnly ==
    u_pc \in {"answered", "saved", "lost", "reported"} /\ AiFailed =>
       \A k \in Range(AccumulateKeys) : \A v \in Range(u_in.regex[k]) :
          /\ (IF k = "phoneNumbers" THEN normalize_phone(v) ELSE v)
                \in Range(Get(u_ai.extracted, k))
          /\ (IF k = "phoneNumbers" THEN normalize_phone(v) ELSE v)
                \in Range(Get(u_info.extracted_entities, k))

\* C26: whenever the classifier call fails or times out, the turn proceeds with
\* is_scam true, confidence 0.5 and an empty list of tactics.
C26_ClassifierFailureDefaults ==
    u_pc # "idle" /\ u_in.store = "ok" /\ (u_in.det.kind = "error" \/ u_in.timed_out) =>
       /\ u_ai.is_scam
       /\ u_ai.confidence = 50
       /\ u_ai.tactics = JList(<<>>)

\* C27: a turn whose conversation row or session state could not be written because
\* the store was unavailable was not answered with status "success".
C27_StoreFailureIsExplicit ==
    u_pc = "lost" => u_resp.status # "success"

\* C28: whenever the webhook request does not succeed (exception, timeout, response
\* other than 200) the payload is in the backup file and one request was made.
C28_FailedDeliveryIsBackedUp ==
    u_pc = "reported" /\ u_hook.outcome # "200" =>
       /\ u_hook.backup = callback_payload(u_info)
       /\ u_hook.requests = 1

\* every canned text of main.py:1004-1053
CannedTexts ==
    Range(fallback_generic)
    \cup UNION {Range(fallback_responses(p)) :
                   p \in {"elderly", "homemaker", "student", "naive_girl"}}

\* C29: every accepted message, whatever the classifier, the extractor and the reply
\* generator do, is answered with status "success" and a non-empty reply that is the
\* generated text or a canned text (the generated text never reaches the handler).
C29_AlwaysSuccessWithReply ==
    u_pc # "idle" /\ u_in.store = "ok" =>
       /\ u_resp.status = "success"
       /\ u_resp.reply # ""
       /\ u_resp.reply \in CannedTexts

(***************************************************************************)
(* app/main.py: calculate_dynamic_timeout                                  *)
(***************************************************************************)
\* durations are fractions <<n, d>> of tenths of a second; timestamps are tenths of a
\* second, -1 stands for a stored value datetime.fromisoformat rejects
MaxTurnNo == 21
MaxRows == 3
INACTIVITY_TIMEOUT == 300
Stamps == {-1, 0, 5, 50, 250, 900}
StoredRows == UNION {[1..n -> Stamps] : n \in 0..MaxRows}

\* main.py:518-529: the timestamps of the rows that parse
RECURSIVE timestamps_of(_)
timestamps_of(rows) ==
    IF rows = <<>> THEN <<>>
    ELSE (IF Head(rows) >= 0 THEN <<Head(rows)>> ELSE <<>>) \o timestamps_of(Tail(rows))

\* main.py:534-539: the gaps between consecutive timestamps that are above 0 and below 60 s
RECURSIVE intervals_of(_)
intervals_of(timestamps) ==
    IF Len(timestamps) < 2 THEN <<>>
    ELSE (IF timestamps[2] - timestamps[1] > 0 /\ timestamps[2] - timestamps[1] < 600
          THEN <<timestamps[2] - timestamps[1]>> ELSE <<>>)
         \o intervals_of(Tail(timestamps))

RECURSIVE SumOf(_)
SumOf(seq) == IF seq = <<>> THEN 0 ELSE Head(seq) + SumOf(Tail(seq))

\* calculate_dynamic_timeout without the bounds of main.py:548
calculate_dynamic_timeout_Unclamped(current_turn, rows, store) ==
    IF current_turn >= 20 THEN <<5, 1>>
    ELSE IF current_turn < 5 THEN <<INACTIVITY_TIMEOUT, 1>>
    ELSE IF store = "unavailable" \/ Len(rows) < 2 \/ Len(timestamps_of(rows)) < 2
            \/ intervals_of(timestamps_of(rows)) = <<>>
    THEN <<INACTIVITY_TIMEOUT, 1>>
    ELSE <<SumOf(intervals_of(timestamps_of(rows)))
              + 15 * Len(intervals_of(timestamps_of(rows))),
           Len(intervals_of(timestamps_of(rows)))>>

\* main.py:478-557; with the store unavailable the queries raise and the handler of
\* main.py:555-557 returns the default
calculate_dynamic_timeout(current_turn, rows, store) ==
    IF current_turn >= 20 THEN <<5, 1>>
    ELSE IF current_turn < 5 THEN <<INACTIVITY_TIMEOUT, 1>>
    ELSE IF store = "unavailable" \/ Len(rows) < 2 \/ Len(timestamps_of(rows)) < 2
            \/ intervals_of(timestamps_of(rows)) = <<>>
    THEN <<INACTIVITY_TIMEOUT, 1>>
    ELSE LET intervals == intervals_of(timestamps_of(rows))
             dynamic_timeout == SumOf(intervals) + 15 * Len(intervals)
         IN IF dynamic_timeout < 30 * Len(intervals) THEN <<30, 1>>
            ELSE IF dynamic_timeout > 150 * Len(intervals) THEN <<150, 1>>
            ELSE <<dynamic_timeout, Len(intervals)>>

\* one call of calculate_dynamic_timeout(session_id, current_turn) on the rows the
\* table messages holds for the session
CalculateDynamicTimeout ==
    /\ d_call = EmptyDict
    /\ \E current_turn \in 1..MaxTurnNo, rows \in StoredRows, store \in StoreStates :
          /\ d_call' = [current_turn |-> current_turn, rows |-> rows, store |-> store]
          /\ d_timeout' = calculate_dynamic_timeout(current_turn, rows, store)
    /\ UNCHANGED <<lifeVars, termVars, moodVars, mergeVars, regexVars, llmVars, turnVars, tailVars>>

NextTimeout == CalculateDynamicTimeout

SpecTimeout == Init /\ [][NextTimeout]_vars

\* the duration is the default / the near-zero duration / within [3 s, 15 s]
IsDefault(t) == t[1] = INACTIVITY_TIMEOUT * t[2]
IsNearZero(t) == t[1] = 5 * t[2]
IsClamped(t) == 30 * t[2] <= t[1] /\ t[1] <= 150 * t[2]

\* C30 as stated: the default for every turn number from 1 to 5, 0.5 s from turn 20
\* on, and for every other turn the default or a value within [3 s, 15 s].
C30_DefaultUpToTurnFive ==
    d_call # EmptyDict =>
       /\ d_call.current_turn \in 1..5 => IsDefault(d_timeout)
       /\ d_call.current_turn >= 20 => IsNearZero(d_timeout)
       /\ d_call.current_turn \in 6..19 => IsDefault(d_timeout) \/ IsClamped(d_timeout)

\* C30, amended: the default for every turn number from 1 to 4, 0.5 s from turn 20
\* on, and for every turn from 5 to 19 the default or a value within [3 s, 15 s].
C30_DefaultBelowTurnFive ==
    d_call # EmptyDict =>
       /\ d_call.current_turn \in 1..4 => IsDefault(d_timeout)
       /\ d_call.current_turn >= 20 => IsNearZero(d_timeout)
       /\ d_call.current_turn \in 5..19 => IsDefault(d_timeout) \/ IsClamped(d_timeout)

\* a call for turn 5 on rows 5 s apart, answered with 6.5 s
C30_Witness ==
    /\ d_call # EmptyDict
    /\ d_call.current_turn = 5
    /\ d_call.rows = <<0, 50>>
    /\ d_call.store = "ok"
    /\ d_timeout = <<65, 1>>

(***************************************************************************)
(* The reply of honeypot_endpoint once `await asyncio.wait_for(            *)
(* persona.generate_response(...), timeout=8.0)` has ended without a       *)
(* usable result (main.py:984-1057), over the successive turns of one      *)
(* session.                                                                *)
(***************************************************************************)
MaxReplyTurn == 8

\* the values session_info["persona_type"] takes (main.py:799, 891-905)
PersonaTypes == {"elderly", "homemaker", "student", "naive_girl"}

\* how the awaited call ends: asyncio.TimeoutError, another exception, or a returned
\* 3-tuple
GenerateOutcomes == {"TimeoutError", "TypeError", "AttributeError", "3-tuple"}

\* main.py:984-1057 on the next turn of the session: turn is
\* session_info["message_count"], active_persona is session_info["persona_type"]
ReplyOnFailure ==
    /\ IF f_call = EmptyDict THEN TRUE ELSE f_call.turn < MaxReplyTurn
    /\ \E generated \in GenerateOutcomes, active_persona \in PersonaTypes :
          f_call' = [raised         |-> generated,
                     active_persona |-> active_persona,
                     turn           |-> IF f_call = EmptyDict THEN 1 ELSE f_call.turn + 1,
                     response_text  |-> response_text(generated, active_persona,
                                          IF f_call = EmptyDict THEN 1 ELSE f_call.turn + 1),
                     persona_id     |-> active_persona]
    /\ f_prev' = f_call
    /\ UNCHANGED <<lifeVars, termVars, moodVars, mergeVars, regexVars, llmVars, turnVars,
                   dynVars, genVars, sumVars>>

NextReply == ReplyOnFailure

SpecReply == Init /\ [][NextReply]_vars

TimedOut(call) == call # EmptyDict /\ call.raised = "TimeoutError"

Accepting(r) == pc[r] = "idle" /\ pc'[r] = "ai"

\* C32: with the messages of a session handled one at a time, the first message of a
\* session finds no stored record and creates the session with turn count 1, and
\* every later message sets the turn count to the stored count plus 1.
C32_TurnCountFollowsStore ==
    [][\A r \in Requests :
          Accepting(r) =>
             IF AcceptedFor(req_sid'[r]) = {}
             THEN /\ req_sid'[r] \notin DOMAIN db_state
                  /\ session_info'[r].message_count = 1
             ELSE /\ req_sid'[r] \in DOMAIN db_state
                  /\ session_info'[r].message_count =
                        db_state[req_sid'[r]].message_count + 1]_vars

\* the second message of s1 is accepted after the first was saved with count 1
C32_Witness ==
    /\ pc[2] = "ai"
    /\ req_sid[1] = "s1" /\ req_sid[2] = "s1"
    /\ db_state["s1"].message_count = 1
    /\ session_info[2].message_count = 2

(***************************************************************************)
(* The request lifecycle with the x-api-key check of honeypot_endpoint.    *)
(***************************************************************************)
\* main.py:49, the default of os.getenv("API_KEY", ...)
API_KEY == "hackathon-api-key-2026"

\* the x-api-key header values a caller sends
ApiKeys == {API_KEY, "wrong-api-key"}

\* a handler that tests the key only after it has created the session
RejectKey_AfterLoad(r, x_api_key) ==
    /\ LoopFree
    /\ pc[r] = "idle"
    /\ IF r = 1 THEN TRUE ELSE pc[r - 1] # "idle"
    /\ x_api_key # API_KEY
    /\ pc' = [pc EXCEPT ![r] = "401"]
    /\ session_info' = Put(session_info, r, NewSessionInfo)
    /\ session_data' = Put(session_data, "s1", r)
    /\ UNCHANGED <<req_sid, req_extracted, monitor_ts, active_sessions, clock, callbacks,
                   hive_mind_alert, db_state, db_messages, known_scammers>>
    /\ UNCHANGED <<termVars, moodVars, extVars>>

\* main.py:720-735: the request is logged, the key differs from API_KEY and
\* HTTPException(status_code=401) leaves the handler
RejectKey(r, x_api_key) ==
    /\ LoopFree
    /\ pc[r] = "idle"
    /\ IF r = 1 THEN TRUE ELSE pc[r - 1] # "idle"
    /\ x_api_key # API_KEY
    /\ pc' = [pc EXCEPT ![r] = "401"]
    /\ UNCHANGED <<req_sid, req_extracted, session_info, monitor_ts, session_data,
                   active_sessions, clock, callbacks, hive_mind_alert, db_state,
                   db_messages, known_scammers>>
    /\ UNCHANGED <<termVars, moodVars, extVars>>

\* main.py:733-831 for a request that carries the configured key
AcceptKeyed(r, s, x_api_key) ==
    /\ x_api_key = API_KEY
    /\ Accept(r, s)

NextAuth ==
    \/ \E r \in Requests, s \in Sessions, x_api_key \in ApiKeys : AcceptKeyed(r, s, x_api_key)
    \/ \E r \in Requests, x_api_key \in ApiKeys : RejectKey(r, x_api_key)
    \/ \E r \in Requests, out \in DetectOutcomes : Process(r, out)
    \/ \E r \in Requests : Respond(r)
    \/ \E r \in Requests : process_background_tasks(r)
    \/ \E r \in Requests : MonitorWake(r)
    \/ \E r \in Requests : MonitorMark(r)

SpecAuth == Init /\ [][NextAuth]_vars

\* request r was answered with status 401
Rejected(r) == pc[r] = "401"

\* C33: the step that rejects a request with status 401 creates or loads no session,
\* increments no turn counter, leaves the tables (messages, session_state,
\* known_scammers) as they are and starts no timer; the rejected request never does
\* any of this later either.
C33_RejectedKeyChangesNothing ==
    [][\A r \in Requests :
          /\ (pc[r] = "idle" /\ Rejected(r)') =>
                UNCHANGED <<req_sid, req_extracted, session_info, monitor_ts, session_data,
                            active_sessions, clock, callbacks, hive_mind_alert, db_state,
                            db_messages, known_scammers>>
          /\ Rejected(r) =>
                /\ Rejected(r)'
                /\ r \notin DOMAIN session_info'
                /\ r \notin DOMAIN monitor_ts'
                /\ \A s \in DOMAIN session_data' : session_data'[s] # r]_vars

\* the second request is rejected while the monitor of the first is pending, and the
\* first request's session is as its turn left it
C33_Witness ==
    /\ pc[1] = "monitor"
    /\ Rejected(2)
    /\ DOMAIN session_info = {1}
    /\ DOMAIN monitor_ts = {1}
    /\ session_info[1].message_count = 1

(***************************************************************************)
(* The request lifecycle under the scheduling of the event loop: a handler *)
(* whose awaited calls are bounded by wait_for (main.py:840-845, 986-995)  *)
(* goes on, a queued background task runs, asyncio.sleep ends              *)
(* (main.py:395) and requests.post returns within its timeout              *)
(* (main.py:351-356): while one of these steps is possible, one is taken.  *)
(* The arrival of a message is not forced.                                 *)
(***************************************************************************)
\* what the detector and the extractor hand to a turn here: the timing of the
\* monitors does not depend on it
LiveOutcomes ==
    {[is_scam |-> TRUE, scam_type |-> "BANK_FRAUD", tactics |-> <<>>,
      extracted |-> [EmptyEntities EXCEPT !.upiIds = <<"scam@fakebank">>]]}

\* a step of a handler past its acceptance, of a background task or of a monitor
Progress ==
    \/ \E r \in Requests, out \in LiveOutcomes : Process(r, out)
    \/ \E r \in Requests : Respond(r)
    \/ \E r \in Requests : process_background_tasks(r)
    \/ \E r \in Requests : MonitorWake(r)
    \/ \E r \in Requests : MonitorMark(r)

NextLive ==
    \/ \E r \in Requests, s \in Sessions : Accept(r, s)
    \/ Progress

SpecLive == Init /\ [][NextLive]_vars /\ WF_vars(Progress)

\* the background task of request r has run
TurnCompleted(r) == pc[r] \in {"monitor", "sending", "done"}

\* a message of the session of r arrived after r
LaterMessage(r) ==
    \E q \in DOMAIN req_sid : r \in DOMAIN req_sid /\ q > r /\ req_sid[q] = req_sid[r]

\* send_guvi_callback was entered for the session of r
ReportDispatched(r) == r \in DOMAIN req_sid /\ callbacks[req_sid[r]] >= 1

BundleOutcomes ==
    {[is_scam |-> TRUE, scam_type |-> "BANK_FRAUD", tactics |-> <<"urgency">>,
      extracted |-> [EmptyEntities EXCEPT !.upiIds = <<"pay@okaxis">>,
                                          !.suspiciousKeywords = <<"urgent">>]],
     [is_scam |-> TRUE, scam_type |-> "BANK_FRAUD", tactics |-> <<>>,
      extracted |-> [EmptyEntities EXCEPT !.upiIds = <<"PAY@OKAXIS">>]],
     [is_scam |-> TRUE, scam_type |-> "JOB_SCAM", tactics |-> <<>>,
      extracted |-> [EmptyEntities EXCEPT !.caseIds = <<"EMP12", "CASE-2024-991">>]]}

NextBundle ==
    \/ \E r \in Requests, s \in Sessions : AcceptInTurn(r, s)
    \/ \E r \in Requests, out \in BundleOutcomes : Process(r, out)
    \/ \E r \in Requests : Respond(r)
    \/ \E r \in Requests : process_background_tasks(r)
    \/ \E r \in Requests : MonitorWake(r)
    \/ \E r \in Requests : MonitorMark(r)

SpecBundle == Init /\ [][NextBundle]_vars

\* the handler of request r is past the accumulation: the bundle of its dict is the
\* one its turn ends with
TurnEnded(r) == pc[r] \notin {"idle", "ai", "401"}

\* the values of one kind in the bundle of request r
BundleOf(r, key) == Range(Get(session_info[r].extracted_entities, key))

\* C35: the accumulated caseIds of a session never hold a value shorter than 6
\* characters, also after the reload from the stored per-message extractions.
C35_NoShortCaseIds ==
    \A r \in DOMAIN session_info : \A v \in BundleOf(r, "caseIds") : Len(v) >= 6

\* C36: every value in a session's bundle at the end of a turn (tactics added to
\* suspiciousKeywords included) is in its bundle at the end of every later turn.
C36_AccumulationMonotone ==
    \A q, r \in DOMAIN session_info :
        (q < r /\ req_sid[q] = req_sid[r] /\ TurnEnded(q) /\ TurnEnded(r))
           => \A key \in Range(AllKeys) : BundleOf(q, key) \subseteq BundleOf(r, key)

\* C37: at the end of a turn no kind of the session's bundle holds two values that
\* are equal when letter case is ignored.
C37_NoCaseInsensitiveDuplicates ==
    \A r \in DOMAIN session_info :
        TurnEnded(r) =>
           \A key \in Range(AllKeys) :
              \A v, w \in BundleOf(r, key) : Lower(v) = Lower(w) => v = w

(***************************************************************************)
(* PersonaEngine.generate_response called with the arguments its signature *)
(* names (persona.py:183-256): the mood update, the persona of the prompt,  *)
(* the chat completion call, the tuple returned.                           *)
(***************************************************************************)
\* the keys of self.personas, persona.py:25-112
PersonaKeys == {"elderly", "homemaker", "student", "naive_girl", "son"}

\* persona.py:203-207
target_persona(eng, persona_type) ==
    IF eng.active_persona_key # "elderly" THEN eng.active_persona_key ELSE persona_type

\* persona.py:209: self.personas.get(target_persona, self.personas["elderly"])
prompt_persona(eng, persona_type) ==
    IF target_persona(eng, persona_type) \in PersonaKeys
    THEN target_persona(eng, persona_type) ELSE "elderly"

\* persona.py:627-636
fallback_response(persona_type) ==
    CASE persona_type = "elderly" ->
           "Beta, I'm not understanding. Can you explain again slowly?"
      [] persona_type = "homemaker" ->
           "I need to think about this. Can you give me a moment?"
      [] persona_type = "student" ->
           "Wait, I'm confused. Let me understand this properly."
      [] persona_type = "naive_girl" ->
           "Bhaiya, I am scared. Please tell me exactly what to do so I don't get in trouble."
      [] persona_type = "son" ->
           "I am not buying this. Who is your supervisor?"
      [] OTHER -> "I'm not sure. Can you explain more?"

\* what the chat completion call of persona.py:218 gives: a text or an exception
CompletionOutcomes == {"text", "exception"}

MaxGenerateCalls == 2

\* one call of generate_response on the engine of the process
GenerateResponse(msg, persona_type, ents, alert, jealous, completion) ==
    /\ mood_calls < MaxGenerateCalls
    /\ mood_calls' = mood_calls + 1
    /\ SetEngine(update_mood(Engine, msg, ents, alert, jealous))
    /\ mood_call' =
          IF should_switch(Engine, keyword_hits[msg], alert)
          THEN [method |-> "_update_mood", session |-> None, triggers |-> <<>>,
                has_financial |-> FALSE, should_switch |-> TRUE]
          ELSE [method |-> "_update_mood", session |-> None,
                triggers |-> detect_triggers(current_mood, keyword_hits[msg], ents, jealous),
                has_financial |-> has_financial(ents), should_switch |-> FALSE]
    /\ g_ret' =
          [persona_type   |-> persona_type,
           handoff_before |-> handoff_triggered,
           prompt_persona |-> prompt_persona(update_mood(Engine, msg, ents, alert, jealous),
                                             persona_type),
           response_text  |-> IF completion = "text" THEN "text"
                              ELSE fallback_response(persona_type),
           persona_id     |-> persona_type,
           current_mood   |-> update_mood(Engine, msg, ents, alert, jealous).current_mood]
    /\ UNCHANGED <<lifeVars, termVars, mergeVars, regexVars, llmVars, turnVars, dynVars,
                   replyVars, sumVars>>

NextPersona ==
    \/ \E msg \in MoodMessages, persona_type \in PersonaTypes, ents \in MoodEntities,
          alert \in BOOLEAN, completion \in CompletionOutcomes :
          \E jealous \in JealousDraws(msg) :
             GenerateResponse(msg, persona_type, ents, alert, jealous, completion)
    \/ ResetMood

SpecPersona == Init /\ [][NextPersona]_vars

\* C38: on every call of generate_response made after the handoff has triggered, the
\* persona key returned is the switched persona "son", the persona the prompt was
\* built for.
C38_ReturnedKeyIsPromptPersona ==
    (g_ret # EmptyDict /\ g_ret.handoff_before) =>
       /\ g_ret.persona_id = "son"
       /\ g_ret.persona_id = g_ret.prompt_persona

(***************************************************************************)
(* SessionManager (app/session.py): the messages of one session and        *)
(* summarize_old_messages, whose chat completion call is awaited between   *)
(* its reads and its writes.                                               *)
(***************************************************************************)
MaxWindow == 2         \* largest context_window_size a manager is constructed with
MaxTurnNumber == 4     \* largest turn_number given to add_message
MaxAdded == 4          \* add_message calls in one run
MaxSummaries == 2      \* summarize_old_messages calls in one run

\* str.strip() on the contents the completion call gives here
RECURSIVE strip(_)
strip(text) ==
    IF text = "" THEN ""
    ELSE IF SubSeq(text, 1, 1) = " " THEN strip(SubSeq(text, 2, Len(text)))
    ELSE IF SubSeq(text, Len(text), Len(text)) = " "
         THEN strip(SubSeq(text, 1, Len(text) - 1))
    ELSE text

\* what `await self.client.chat.completions.create(...)` gives: a message content
\* (None: no content) or an exception
SummaryCompletions ==
    {[kind |-> "exception", content |-> None],
     [kind |-> "text", content |-> None],
     [kind |-> "text", content |-> " scammer claims to be the bank "],
     [kind |-> "text", content |-> "scammer asked for the OTP"]}

\* session.py:271-272
new_summary(completion) ==
    IF completion.content = None THEN "" ELSE strip(completion.content)

\* session.py:199-211: MAX(turn_number) of the session's messages, 0 without messages
RECURSIVE get_message_count(_)
get_message_count(messages) ==
    IF messages = <<>> THEN 0
    ELSE IF Head(messages).turn_number > get_message_count(Tail(messages))
         THEN Head(messages).turn_number
         ELSE get_message_count(Tail(messages))

\* the rows of session_messages with turn_number > cutoff_turn, in their order
RECURSIVE After(_, _)
After(messages, cutoff_turn) ==
    IF messages = <<>> THEN <<>>
    ELSE IF Head(messages).turn_number > cutoff_turn
         THEN <<Head(messages)>> \o After(Tail(messages), cutoff_turn)
         ELSE After(Tail(messages), cutoff_turn)

\* DELETE ... WHERE turn_number < cutoff_turn: the rows of the cutoff turn are kept
delete_old_messages_Strict(messages, cutoff_turn) == After(messages, cutoff_turn - 1)

\* session.py:280-283: DELETE FROM session_messages WHERE ... AND turn_number <= ?
delete_old_messages(messages, cutoff_turn) == After(messages, cutoff_turn)

\* SessionManager(context_window_size=w) (session.py:26-31), then
\* get_or_create_session for a new session id (session.py:96-113)
GetOrCreateSession(w) ==
    /\ s_window = 0
    /\ s_window' = w
    /\ s_db' = [summary |-> "", messages |-> <<>>, last_id |-> 0]
    /\ UNCHANGED <<s_call, s_ret>>
    /\ UNCHANGED <<lifeVars, termVars, moodVars, mergeVars, regexVars, llmVars, turnVars,
                   dynVars, replyVars, genVars>>

\* session.py:151-171: add_message inserts a row under the next AUTOINCREMENT id
AddMessage(turn_number) ==
    /\ s_window # 0
    /\ s_db.last_id < MaxAdded
    /\ s_db' = [s_db EXCEPT
                  !.messages = Append(@, [id |-> s_db.last_id + 1,
                                          turn_number |-> turn_number]),
                  !.last_id = @ + 1]
    /\ UNCHANGED <<s_window, s_call, s_ret>>
    /\ UNCHANGED <<lifeVars, termVars, moodVars, mergeVars, regexVars, llmVars, turnVars,
                   dynVars, replyVars, genVars>>

\* session.py:218-251: the summary and the turn count are read; the call returns the
\* current summary when the turns fit the window or no row is at or below the cutoff,
\* otherwise it goes on to await the completion
SummarizeBegin ==
    /\ s_window # 0
    /\ s_call = EmptyDict
    /\ s_ret.calls < MaxSummaries
    /\ IF get_message_count(s_db.messages) <= s_window
          \/ After(s_db.messages, get_message_count(s_db.messages) - s_window)
                = s_db.messages
       THEN /\ s_ret' = [calls |-> s_ret.calls + 1, completion |-> None,
                         value |-> s_db.summary]
            /\ UNCHANGED s_call
       ELSE /\ s_call' = [current_summary |-> s_db.summary,
                          total_turns     |-> get_message_count(s_db.messages),
                          cutoff_turn     |-> get_message_count(s_db.messages) - s_window]
            /\ s_ret' = [s_ret EXCEPT !.calls = @ + 1]
    /\ UNCHANGED <<s_window, s_db>>
    /\ UNCHANGED <<lifeVars, termVars, moodVars, mergeVars, regexVars, llmVars, turnVars,
                   dynVars, replyVars, genVars>>

\* session.py:254-291: the completion call is over; on an exception the summary read
\* at the start is returned, otherwise the new summary is stored, the rows at or
\* below the cutoff are deleted and the new summary is returned
SummarizeEnd(completion) ==
    /\ s_call # EmptyDict
    /\ IF completion.kind = "exception"
       THEN /\ s_ret' = [s_ret EXCEPT !.completion = "exception",
                                      !.value = s_call.current_summary]
            /\ UNCHANGED s_db
       ELSE /\ s_db' = [s_db EXCEPT
                          !.summary = new_summary(completion),
                          !.messages = delete_old_messages(@, s_call.cutoff_turn)]
            /\ s_ret' = [s_ret EXCEPT !.completion = "text",
                                      !.value = new_summary(completion)]
    /\ s_call' = EmptyDict
    /\ UNCHANGED s_window
    /\ UNCHANGED <<lifeVars, termVars, moodVars, mergeVars, regexVars, llmVars, turnVars,
                   dynVars, replyVars, genVars>>

NextSummary ==
    \/ \E w \in 1..MaxWindow : GetOrCreateSession(w)
    \/ \E turn_number \in 1..MaxTurnNumber : AddMessage(turn_number)
    \/ SummarizeBegin
    \/ \E completion \in SummaryCompletions : SummarizeEnd(completion)

SpecSummary == Init /\ [][NextSummary]_vars

\* a call of summarize_old_messages starts / returns in this step
SummarizeCalled == s_ret'.calls = s_ret.calls + 1
SummarizeReturned ==
    \/ SummarizeCalled /\ s_call' = EmptyDict
    \/ s_call # EmptyDict /\ s_call' = EmptyDict

\* C39: summarize_old_messages leaves the summary and the stored messages as they
\* are and returns the current summary when the session has at most
\* context_window_size turns or when the summary generation fails; when it succeeds
\* the new summary is stored and returned and exactly the messages with turn number
\* at most (total turns - context_window_size) are deleted, every later one kept.
C39_SummarizeOldMessages ==
    [][/\ (SummarizeCalled /\ get_message_count(s_db.messages) <= s_window) =>
             /\ SummarizeReturned
             /\ s_db' = s_db
             /\ s_ret'.value = s_db.summary
       /\ (SummarizeReturned /\ s_ret'.completion = "exception") =>
             /\ s_db' = s_db
             /\ s_ret'.value = s_db.summary
       /\ (SummarizeReturned /\ s_ret'.completion = "text") =>
             /\ s_db'.summary = s_ret'.value
             /\ \A i \in DOMAIN s_db.messages :
                   (\E j \in DOMAIN s_db'.messages : s_db'.messages[j] = s_db.messages[i])
                      <=> s_db.messages[i].turn_number > s_call.total_turns - s_window
             /\ \A j \in DOMAIN s_db'.messages :
                   \E i \in DOMAIN s_db.messages : s_db.messages[i] = s_db'.messages[j]]_vars

\* a call on four turns with a window of two has succeeded: the rows of turns 1 and
\* 2 are gone, those of turns 3 and 4 are kept and the stripped summary is stored
C39_Witness ==
    /\ s_window = 2
    /\ s_call = EmptyDict
    /\ s_ret.completion = "text"
    /\ s_ret.value = "scammer claims to be the bank"
    /\ s_db.summary = "scammer claims to be the bank"
    /\ s_db.last_id = 4
    /\ s_db.messages = <<[id |-> 3, turn_number |-> 3], [id |-> 4, turn_number |-> 4]>>

====
